---- MODULE Spec2Model ----
(***************************************************************************)
(* Model of the document-priority engine of the context-intelligence       *)
(* layer (src/src/composables/useDocumentPriority.ts).                     *)
(*                                                                         *)
(* Numbers.  The code computes with IEEE doubles; the model uses fixed     *)
(* point.  A factor is an integer number of thousandths (FactorOne = 1.0), *)
(* a weight an integer number of hundredths, and a priority or a threshold *)
(* therefore an integer number of 1/100000 (PriorityOne = 1.0).  Times are *)
(* whole days, file sizes whole KiB.                                       *)
(*                                                                         *)
(* Scheduling.  JavaScript runs every callback to completion and suspends  *)
(* an async function only at an await of an external (RPC) call.  Each     *)
(* action below is therefore one run of synchronous code: from the         *)
(* completion of the awaited call (or from the invocation) to the next     *)
(* external call that is issued.                                           *)
(***************************************************************************)
EXTENDS Integers, Sequences, FiniteSets, TLC

\* ------------------------------------------------------------------ bounds
MaxDocs == 2            \* documents the backend knows about
MaxCycles == 2          \* timer callbacks that can be suspended at once
MaxCachedSetting == 1   \* largest maxCachedDocuments a settings update sets
MaxLimit == 2           \* largest limit passed to getTopPriorityDocuments
MaxChunks == 3          \* chunks that a search returns
MaxCalls == 2           \* invocations of the context service in progress at once
MaxAccessCount == 1     \* access_count up to which documents are added to the context
MaxSessions == 3        \* session objects that the conversation store creates or loads

\* ------------------------------------------------------------------- units
FactorOne == 1000
PriorityOne == 100000
TenMB == 10240

Min(a, b) == IF a <= b THEN a ELSE b
Max(a, b) == IF a >= b THEN a ELSE b

\* --------------------------------------------------------- Math.log10, exp
RECURSIVE Pow10(_)
Pow10(k) == IF k = 0 THEN 1 ELSE 10 * Pow10(k - 1)

RECURSIVE Digits10(_)
Digits10(m) == IF m < 10 THEN 0 ELSE 1 + Digits10(m \div 10)

\* Binary digits of log10(x / 1000) for 1000 <= x < 10000, by repeated
\* squaring: squaring doubles the logarithm, and a square of 10 or more
\* contributes the next binary digit.
RECURSIVE Log10Frac(_, _, _)
Log10Frac(x, bits, k) ==
  IF k = 0 THEN bits
  ELSE LET sq == (x * x) \div 1000
       IN  IF sq >= 10000
           THEN Log10Frac(sq \div 10, 2 * bits + 1, k - 1)
           ELSE Log10Frac(sq, 2 * bits, k - 1)

\* Math.log10(m) in thousandths, m >= 1.
Log10(m) ==
  LET k == Digits10(m)
      x == IF k >= 3 THEN m \div Pow10(k - 3) ELSE m * Pow10(3 - k)
  IN  1000 * k + (Log10Frac(x, 0, 10) * 1000) \div 1024

\* Math.exp(-days / 30) in ten-thousandths: a factor exp(-1) = 0.3679 for
\* every 30 days and exp(-1/30) = 0.9672 for every further day (for a
\* timestamp in the future the factors divide).
RECURSIVE ExpDecay(_, _)
ExpDecay(x, days) ==
  IF days = 0 THEN x
  ELSE IF days >= 30 THEN ExpDecay((x * 3679) \div 10000, days - 30)
  ELSE IF days > 0 THEN ExpDecay((x * 9672) \div 10000, days - 1)
  ELSE IF days <= -30 THEN ExpDecay((x * 10000) \div 3679, days + 30)
  ELSE ExpDecay((x * 10000) \div 9672, days + 1)

\* Math.exp(-(now - lastAccessed) / (30 days)) in thousandths.
Exp(elapsedDays) == ExpDecay(10000, elapsedDays) \div 10

\* ------------------------------------------------------- priority function
WEIGHTS ==
  [ACCESS_FREQUENCY |-> 25, RECENCY |-> 20, CONTEXT_RELEVANCE |-> 30,
   EMBEDDING_STATUS |-> 15, FILE_SIZE |-> -5, USER_PREFERENCE |-> 15]

\* The six factors of calculateDocumentPriority.  a.elapsedDays is
\* now - lastAccessed.
PriorityFactors(a) ==
  [accessFrequency |-> Min(Log10(a.accessCount + 1) \div 2, FactorOne),
   recency |-> Exp(a.elapsedDays),
   contextRelevance |-> a.contextRelevance,
   embeddingStatus |-> IF a.embeddingReady THEN FactorOne ELSE 0,
   fileSize |-> Max(0, FactorOne - (a.fileSizeKiB * FactorOne) \div TenMB),
   userPreference |-> a.userPreference]

WeightedSum(factors) ==
  factors.accessFrequency * WEIGHTS.ACCESS_FREQUENCY +
  factors.recency * WEIGHTS.RECENCY +
  factors.contextRelevance * WEIGHTS.CONTEXT_RELEVANCE +
  factors.embeddingStatus * WEIGHTS.EMBEDDING_STATUS +
  factors.fileSize * WEIGHTS.FILE_SIZE +
  factors.userPreference * WEIGHTS.USER_PREFERENCE

MaxFactor(factors) ==
  Max(Max(factors.accessFrequency, factors.recency),
      Max(factors.contextRelevance, factors.userPreference))

\* Mutant of PriorityReason: recency is tested before access frequency.
PriorityReasonRecencyFirst(factors, priority, priorityThreshold) ==
  LET maxFactor == MaxFactor(factors)
  IN  IF maxFactor = factors.contextRelevance /\ factors.contextRelevance > 700
        THEN "High context relevance"
      ELSE IF maxFactor = factors.recency /\ factors.recency > 800
        THEN "Recently accessed"
      ELSE IF maxFactor = factors.accessFrequency /\ factors.accessFrequency > 600
        THEN "Frequently accessed"
      ELSE IF maxFactor = factors.userPreference /\ factors.userPreference > 700
        THEN "User preference"
      ELSE IF priority > priorityThreshold
        THEN "Multiple factors"
      ELSE "Low priority"

PriorityReason(factors, priority, priorityThreshold) ==
  LET maxFactor == MaxFactor(factors)
  IN  IF maxFactor = factors.contextRelevance /\ factors.contextRelevance > 700
        THEN "High context relevance"
      ELSE IF maxFactor = factors.accessFrequency /\ factors.accessFrequency > 600
        THEN "Frequently accessed"
      ELSE IF maxFactor = factors.recency /\ factors.recency > 800
        THEN "Recently accessed"
      ELSE IF maxFactor = factors.userPreference /\ factors.userPreference > 700
        THEN "User preference"
      ELSE IF priority > priorityThreshold
        THEN "Multiple factors"
      ELSE "Low priority"

\* Mutant of ClampedPriority: the weighted sum is stored as it is.
UnclampedPriority(priority) == priority

ClampedPriority(priority) == Max(0, Min(PriorityOne, priority))

\* The DocumentPriority object calculateDocumentPriority builds (lastUpdated,
\* which nothing reads, is left out).
DocumentPriority(documentId, a, priorityThreshold) ==
  LET factors == PriorityFactors(a)
      priority == WeightedSum(factors)
  IN  [documentId |-> documentId,
       priority |-> ClampedPriority(priority),
       reason |-> PriorityReason(factors, priority, priorityThreshold),
       factors |-> factors]

\* ------------------------------------------------- Map<string, DocumentPriority>
\* A JavaScript Map iterates in insertion order, and set() of a present key
\* keeps the key's place: the table is a sequence of entries with distinct
\* documentIds.
MapIds(table) == {table[i].documentId : i \in 1..Len(table)}

MapSet(table, entry) ==
  IF entry.documentId \in MapIds(table)
  THEN [i \in 1..Len(table) |->
          IF table[i].documentId = entry.documentId THEN entry ELSE table[i]]
  ELSE Append(table, entry)

\* new Map(priorities.map(p => [p.documentId, p])): a repeated id keeps its
\* first place and its last value.
RECURSIVE MapFrom(_)
MapFrom(list) ==
  IF list = <<>> THEN <<>>
  ELSE MapSet(MapFrom(SubSeq(list, 1, Len(list) - 1)), list[Len(list)])

\* Array.prototype.sort is stable: an insertion sort that puts an element
\* after the elements it does not precede.  The comparator is
\* (a, b) => sign * (a.priority - b.priority): sign 1 sorts ascending, as in
\* evictLowPriorityDocuments, sign -1 descending, as in getTopPriorityDocuments.
ComparePriority(a, b, sign) == sign * (a.priority - b.priority)

RECURSIVE SortInsert(_, _, _)
SortInsert(sorted, e, sign) ==
  IF sorted = <<>> THEN <<e>>
  ELSE IF ComparePriority(e, sorted[Len(sorted)], sign) < 0
       THEN Append(SortInsert(SubSeq(sorted, 1, Len(sorted) - 1), e, sign),
                   sorted[Len(sorted)])
       ELSE Append(sorted, e)

RECURSIVE SortByPriority(_, _)
SortByPriority(list, sign) ==
  IF list = <<>> THEN <<>>
  ELSE SortInsert(SortByPriority(SubSeq(list, 1, Len(list) - 1), sign),
                  list[Len(list)], sign)

\* priorities.filter(p => p.priority >= priorityThreshold)
RECURSIVE FilterThreshold(_, _)
FilterThreshold(list, priorityThreshold) ==
  IF list = <<>> THEN <<>>
  ELSE LET rest == FilterThreshold(Tail(list), priorityThreshold)
       IN  IF Head(list).priority >= priorityThreshold
           THEN <<Head(list)>> \o rest
           ELSE rest

\* Array.prototype.slice(0, end) for end >= 0
SliceTo(list, end) == SubSeq(list, 1, Min(end, Len(list)))

\* Mutant of TopPriorityDocuments: the sort is missing.
TopPriorityDocumentsUnsorted(table, strategy, limit) ==
  SliceTo(FilterThreshold(table, strategy.priorityThreshold), limit)

\* getTopPriorityDocuments(limit) on a table under a strategy
TopPriorityDocuments(table, strategy, limit) ==
  SliceTo(SortByPriority(FilterThreshold(table, strategy.priorityThreshold), -1),
          limit)

\* Mutant of ToEvict: the sort is descending, as in getTopPriorityDocuments.
ToEvictHighest(table, strategy) ==
  SliceTo(SortByPriority(table, -1),
          Max(0, Len(table) - strategy.maxCachedDocuments))

\* The toEvict list of evictLowPriorityDocuments
ToEvict(table, strategy) ==
  SliceTo(SortByPriority(table, 1),
          Max(0, Len(table) - strategy.maxCachedDocuments))

\* ------------------------------------------------------------------ state
VARIABLES
  documentPriorities,  \* the priority table, in Map insertion order
  cacheStrategy,       \* the CacheStrategy
  isProcessing,        \* re-entrancy flag of the background callback
  intervalSet,         \* setInterval has registered the background callback
  init,                \* initializePriorityService: the call it awaits, or "done"
  cyc,                 \* the activations of the background callback
  api,                 \* an invocation of the exported API by the UI
  tick,                \* what the latest timer tick of the running cycle did
  calledWith,          \* history: the arguments each table entry was computed from
  rag,                 \* an invocation of RagContextManager: arguments and result
  contextCache,        \* ContextIntelligenceService: the documents, in Map order
  contextSession,      \* its ContextSession, or Null
  contextAnalysis,     \* its latest ContextAnalysis, or Null
  documentPriorityQueue, \* its queue of document ids awaiting embeddings
  contextProcessing,   \* its isProcessing flag
  contextInit,         \* initializeContextSystem: the call it awaits, or "done"
  contextTimer,        \* setInterval has registered its background callback
  contextCalls,        \* its invocations in progress: API calls and timer callbacks
  access,              \* an invocation of updateDocumentAccess, preloadSimilarDocuments
                       \* or evictLowPriorityDocuments by the UI
  live,                \* useLiveAI: its refs, its stream listener and its timeout
  liveCalls,           \* its invocations in progress: API calls and timeout callbacks
  sessionObjects,      \* conversation store: the ConversationSession objects; an
                       \* object is named by its position, which is also its id
  sessions,            \* its sessions array: the objects it holds, in order
  currentSession,      \* its currentSession: the object it refers to, or 0 (null)
  storeLoad,           \* the initial loadSessions: the call it awaits, or "done",
                       \* or "migrated" once it has removed the localStorage item
  storeCalls           \* its deleteSession and clearAllSessions calls in progress

priorityVars ==
  <<documentPriorities, cacheStrategy, isProcessing, intervalSet, init, cyc,
    api, tick, calledWith>>

ragVars == <<rag>>

contextVars ==
  <<contextCache, contextSession, contextAnalysis, documentPriorityQueue,
    contextProcessing, contextInit, contextTimer, contextCalls>>

accessVars == <<access>>

liveVars == <<live, liveCalls>>

storeVars == <<sessionObjects, sessions, currentSession, storeLoad, storeCalls>>

vars == <<priorityVars, ragVars, contextVars, accessVars, liveVars, storeVars>>

DocIds == 1..MaxDocs

NoArgs ==
  [accessCount |-> -1, elapsedDays |-> 0, contextRelevance |-> 0,
   embeddingReady |-> FALSE, fileSizeKiB |-> 0, userPreference |-> 0]

NoFactors ==
  [accessFrequency |-> 0, recency |-> 0, contextRelevance |-> 0,
   embeddingStatus |-> 0, fileSize |-> 0, userPreference |-> 0]

NoPriority ==
  [documentId |-> 0, priority |-> 0, reason |-> "", factors |-> NoFactors]

\* An entry of a cycle's record of what it did: it entered one of its three
\* awaited functions, issued an external call, or saw one complete.
Event(ev, what, documentId) == [ev |-> ev, what |-> what, documentId |-> documentId]

IdleCycle ==
  [pc |-> "idle", allDocuments |-> <<>>, toEvict |-> <<>>,
   maxCached |-> 0, topPriorities |-> <<>>, i |-> 0, log |-> <<>>,
   failed |-> {}]

IdleApi ==
  [pc |-> "idle", op |-> "", documentId |-> 0, a |-> NoArgs,
   result |-> NoPriority, list |-> <<>>, limit |-> 0, ok |-> TRUE,
   raised |-> FALSE]

\* ------------------------------------------------------- external backend
\* A document as get_all_documents returns it.  elapsedDays stands for
\* now - new Date(doc.last_accessed).
Doc(id, profile) ==
  [id |-> id, access_count |-> profile.access_count,
   elapsedDays |-> profile.elapsedDays,
   embedding_status |-> profile.embedding_status,
   file_size |-> profile.file_size, user_preference |-> profile.user_preference]

\* The documents of the backend differ in the fields the priority reads: a
\* hot document with a large file, the same document with an empty file, and
\* a cold one.
DocProfiles ==
  {[access_count |-> 100, elapsedDays |-> 0, embedding_status |-> "completed",
    file_size |-> 20480, user_preference |-> 1000],
   [access_count |-> 100, elapsedDays |-> 0, embedding_status |-> "completed",
    file_size |-> 0, user_preference |-> 1000],
   [access_count |-> 0, elapsedDays |-> 300, embedding_status |-> "pending",
    file_size |-> 0, user_preference |-> 0]}

\* What get_all_documents can return: documents 1..n, each with any profile.
DocumentLists ==
  UNION {{[i \in 1..n |-> Doc(i, f[i])] : f \in [1..n -> DocProfiles]} : n \in 0..MaxDocs}

\* The arguments recalculateAllPriorities passes for a document.
RecalculateArgs(doc) ==
  [accessCount |-> doc.access_count,
   elapsedDays |-> doc.elapsedDays,
   contextRelevance |-> 0,
   embeddingReady |-> (doc.embedding_status = "completed"),
   fileSizeKiB |-> doc.file_size,
   userPreference |-> doc.user_preference]

DefaultStrategy ==
  [maxCachedDocuments |-> 10, priorityThreshold |-> 70000,
   backgroundProcessing |-> TRUE, preloadSimilarDocuments |-> TRUE]

\* What get_document_priorities can return: priorities this service saved in
\* an earlier run.
PersistedPriorities ==
  {<<>>} \cup
  {<<DocumentPriority(2, RecalculateArgs(Doc(2, p)), DefaultStrategy.priorityThreshold)>>
     : p \in DocProfiles}

\* No continuation that runs without a further external call is pending:
\* such continuations run before any timer or RPC completion is delivered.
Settled ==
  /\ api.pc # "returned"
  /\ access.pc # "returned"
  /\ \A k \in 1..MaxCycles : cyc[k].pc # "finally"

\* No invocation of RagContextManager is in progress
IdleRag == [op |-> "idle"]

\* null, for a field that holds a record otherwise
Null == [null |-> TRUE]

\* A slot of contextCalls that holds no invocation
IdleCall == [op |-> "idle", pc |-> "idle"]

\* useLiveAI as constructed, lines 372-380 and 402-404: the refs, whether a
\* stream listener is registered, and the pending analysis timeout
InitialLive ==
  [isActive |-> FALSE, sessionId |-> Null, response |-> "",
   suggestions |-> <<>>, isProcessing |-> FALSE, error |-> Null,
   isAnalyzing |-> FALSE, preemptiveAnalysisInProgress |-> FALSE,
   streamListener |-> FALSE, analysisTimeout |-> Null]

Init ==
  /\ documentPriorities = <<>>
  /\ cacheStrategy = DefaultStrategy
  /\ isProcessing = FALSE
  /\ intervalSet = FALSE
  /\ init = "get_document_priorities"
  /\ cyc = [k \in 1..MaxCycles |-> IdleCycle]
  /\ api = IdleApi
  /\ tick = "none"
  /\ calledWith = [d \in DocIds |-> NoArgs]
  /\ rag = IdleRag
  /\ contextCache = <<>>
  /\ contextSession = Null
  /\ contextAnalysis = Null
  /\ documentPriorityQueue = <<>>
  /\ contextProcessing = FALSE
  /\ contextInit = "get_cached_context_documents"
  /\ contextTimer = FALSE
  /\ contextCalls = [k \in 1..MaxCalls |-> IdleCall]
  /\ access = IdleCall
  /\ live = InitialLive
  /\ liveCalls = [k \in 1..MaxCalls |-> IdleCall]
  /\ sessionObjects = <<>>
  /\ sessions = <<>>
  /\ currentSession = 0
  /\ storeLoad = "load_conversations"
  /\ storeCalls = [k \in 1..MaxCalls |-> IdleCall]

\* ------------------------------------------------- initializePriorityService
\* get_document_priorities completes: loadDocumentPriorities replaces the
\* table (or logs the failure), then the background timer is registered.
LoadDocumentPrioritiesDone(ok, priorities) ==
  /\ init = "get_document_priorities"
  /\ Settled
  /\ init' = "done"
  /\ IF ok
     THEN /\ documentPriorities' = MapFrom(priorities)
          /\ calledWith' = [d \in DocIds |-> NoArgs]
     ELSE UNCHANGED <<documentPriorities, calledWith>>
  /\ intervalSet' = cacheStrategy.backgroundProcessing
  /\ UNCHANGED <<cacheStrategy, isProcessing, cyc, api, tick>>
  /\ UNCHANGED <<ragVars, contextVars, accessVars, liveVars, storeVars>>

\* ------------------------------------------------------------ exported API
\* calculateDocumentPriority up to its await: the entry is computed and
\* stored, and save_document_priority is issued.
CalculateDocumentPriority(documentId, a) ==
  /\ api.pc = "idle"
  /\ Settled
  /\ LET documentPriority ==
           DocumentPriority(documentId, a, cacheStrategy.priorityThreshold)
     IN  /\ documentPriorities' = MapSet(documentPriorities, documentPriority)
         /\ api' = [IdleApi EXCEPT !.pc = "save_document_priority",
                                   !.op = "calculateDocumentPriority",
                                   !.documentId = documentId, !.a = a,
                                   !.result = documentPriority]
  /\ calledWith' = [calledWith EXCEPT ![documentId] = a]
  /\ UNCHANGED <<cacheStrategy, isProcessing, intervalSet, init, cyc, tick>>
  /\ UNCHANGED <<ragVars, contextVars, accessVars, liveVars, storeVars>>

\* Mutant of PersistDocumentPriorityDone: the failure is not caught.
PersistDocumentPriorityUncaught(ok) ==
  /\ api.pc = "save_document_priority"
  /\ Settled
  /\ api' = [api EXCEPT !.pc = "returned", !.ok = ok, !.raised = ~ok,
                        !.result = IF ok THEN @ ELSE NoPriority]
  /\ UNCHANGED <<documentPriorities, cacheStrategy, isProcessing, intervalSet,
                 init, cyc, tick, calledWith>>
  /\ UNCHANGED <<ragVars, contextVars, accessVars, liveVars, storeVars>>

\* persistDocumentPriority: save_document_priority completes; a failure is
\* caught and logged, and calculateDocumentPriority returns its entry.
PersistDocumentPriorityDone(ok) ==
  /\ api.pc = "save_document_priority"
  /\ Settled
  /\ api' = [api EXCEPT !.pc = "returned", !.ok = ok, !.raised = FALSE]
  /\ UNCHANGED <<documentPriorities, cacheStrategy, isProcessing, intervalSet,
                 init, cyc, tick, calledWith>>
  /\ UNCHANGED <<ragVars, contextVars, accessVars, liveVars, storeVars>>

\* getTopPriorityDocuments(limit): no external call, it returns at once.
GetTopPriorityDocuments(limit) ==
  /\ api.pc = "idle"
  /\ Settled
  /\ api' = [IdleApi EXCEPT !.pc = "returned",
                            !.op = "getTopPriorityDocuments",
                            !.limit = limit,
                            !.list = TopPriorityDocuments(documentPriorities,
                                                          cacheStrategy, limit)]
  /\ UNCHANGED <<documentPriorities, cacheStrategy, isProcessing, intervalSet,
                 init, cyc, tick, calledWith>>
  /\ UNCHANGED <<ragVars, contextVars, accessVars, liveVars, storeVars>>

\* { ...this.cacheStrategy.value, ...strategy }
MergeStrategy(strategy, partial) ==
  [f \in DOMAIN strategy |-> IF f \in DOMAIN partial THEN partial[f] ELSE strategy[f]]

\* updateCacheStrategy up to its await: the strategy is replaced and
\* update_cache_strategy is issued.
UpdateCacheStrategy(partial) ==
  /\ api.pc = "idle"
  /\ Settled
  /\ cacheStrategy' = MergeStrategy(cacheStrategy, partial)
  /\ cacheStrategy' # cacheStrategy
  /\ api' = [IdleApi EXCEPT !.pc = "update_cache_strategy",
                            !.op = "updateCacheStrategy"]
  /\ UNCHANGED <<documentPriorities, isProcessing, intervalSet, init, cyc,
                 tick, calledWith>>
  /\ UNCHANGED <<ragVars, contextVars, accessVars, liveVars, storeVars>>

\* update_cache_strategy completes; a failure is caught and logged.
UpdateCacheStrategyDone(ok) ==
  /\ api.pc = "update_cache_strategy"
  /\ Settled
  /\ api' = [api EXCEPT !.pc = "returned", !.ok = ok, !.raised = FALSE]
  /\ UNCHANGED <<documentPriorities, cacheStrategy, isProcessing, intervalSet,
                 init, cyc, tick, calledWith>>
  /\ UNCHANGED <<ragVars, contextVars, accessVars, liveVars, storeVars>>

\* The caller takes the outcome of its call.
ApiReturn ==
  /\ api.pc = "returned"
  /\ api' = IdleApi
  /\ UNCHANGED <<documentPriorities, cacheStrategy, isProcessing, intervalSet,
                 init, cyc, tick, calledWith>>
  /\ UNCHANGED <<ragVars, contextVars, accessVars, liveVars, storeVars>>

\* ------------------------------------------------------ background callback
\* A loop body issues the external call `what` for its next item and awaits it.
Active(c, pc, what, documentId) ==
  [c EXCEPT !.pc = pc, !.i = c.i + 1,
            !.log = Append(c.log, Event("issue", what, documentId))]

\* preloadHighPriorityDocuments at its loop test
PreloadFrom(k, c) ==
  IF c.i < Len(c.topPriorities)
  THEN cyc' = [cyc EXCEPT ![k] =
                 Active(c, "ensure_document_cached", "ensure_document_cached",
                        c.topPriorities[c.i + 1].documentId)]
  ELSE cyc' = [cyc EXCEPT ![k] = [c EXCEPT !.pc = "finally"]]

\* preloadHighPriorityDocuments is entered
PreloadHighPriorityDocuments(k, c) ==
  PreloadFrom(k, [c EXCEPT
    !.i = 0,
    !.topPriorities = TopPriorityDocuments(documentPriorities, cacheStrategy,
                                           cacheStrategy.maxCachedDocuments),
    !.log = Append(c.log, Event("enter", "preloadHighPriorityDocuments", 0))])

\* evictLowPriorityDocuments at its loop test
EvictFrom(k, c) ==
  IF c.i < Len(c.toEvict)
  THEN cyc' = [cyc EXCEPT ![k] =
                 Active(c, "evict_document_from_cache", "evict_document_from_cache",
                        c.toEvict[c.i + 1].documentId)]
  ELSE PreloadHighPriorityDocuments(k, c)

\* evictLowPriorityDocuments is entered
EvictLowPriorityDocuments(k, c) ==
  EvictFrom(k, [c EXCEPT
    !.i = 0,
    !.maxCached = cacheStrategy.maxCachedDocuments,
    !.toEvict = ToEvict(documentPriorities, cacheStrategy),
    !.log = Append(c.log, Event("enter", "evictLowPriorityDocuments", 0))])

\* Mutant of RecalculateFrom: calculateDocumentPriority is not awaited, so
\* the loop stores every remaining document and issues its save without
\* waiting for the one before, and evictLowPriorityDocuments is entered.
RECURSIVE StoreAll(_, _, _)
StoreAll(table, docs, priorityThreshold) ==
  IF docs = <<>> THEN table
  ELSE StoreAll(MapSet(table, DocumentPriority(Head(docs).id,
                                               RecalculateArgs(Head(docs)),
                                               priorityThreshold)),
                Tail(docs), priorityThreshold)

RecalculateFromUnawaited(k, c) ==
  LET rest == SubSeq(c.allDocuments, c.i + 1, Len(c.allDocuments))
      issues == [j \in 1..Len(rest) |->
                   Event("issue", "save_document_priority", rest[j].id)]
  IN  /\ documentPriorities' =
           StoreAll(documentPriorities, rest, cacheStrategy.priorityThreshold)
      /\ calledWith' =
           [d \in DocIds |->
              IF \E j \in 1..Len(rest) : rest[j].id = d
              THEN RecalculateArgs(rest[CHOOSE j \in 1..Len(rest) : rest[j].id = d])
              ELSE calledWith[d]]
      /\ EvictLowPriorityDocuments(k, [c EXCEPT !.i = Len(c.allDocuments),
                                                !.log = c.log \o issues])

\* recalculateAllPriorities at its loop test, c.i documents done: the next
\* document's priority is computed and stored and its save issued, or the
\* loop is over and evictLowPriorityDocuments is entered.
RecalculateFrom(k, c) ==
  IF c.i < Len(c.allDocuments)
  THEN LET doc == c.allDocuments[c.i + 1]
           documentPriority ==
             DocumentPriority(doc.id, RecalculateArgs(doc),
                              cacheStrategy.priorityThreshold)
       IN  /\ documentPriorities' = MapSet(documentPriorities, documentPriority)
           /\ calledWith' = [calledWith EXCEPT ![doc.id] = RecalculateArgs(doc)]
           /\ cyc' = [cyc EXCEPT ![k] =
                        Active(c, "save_document_priority",
                               "save_document_priority", doc.id)]
  ELSE /\ UNCHANGED <<documentPriorities, calledWith>>
       /\ EvictLowPriorityDocuments(k, c)

Done(c, what) ==
  [c EXCEPT !.log = Append(c.log, Event("done", what, c.log[Len(c.log)].documentId))]

Failed(c, what, ok) ==
  [c EXCEPT !.failed = IF ok THEN c.failed ELSE c.failed \cup {what}]

\* Mutant of Tick: the callback does not test the flag.
TickUnguarded ==
  /\ intervalSet
  /\ Settled
  /\ \E k \in 1..MaxCycles :
       /\ cyc[k].pc = "idle"
       /\ \A j \in 1..(k - 1) : cyc[j].pc # "idle"
       /\ cyc' = [cyc EXCEPT ![k] =
            [IdleCycle EXCEPT
               !.pc = "get_all_documents",
               !.log = <<Event("enter", "recalculateAllPriorities", 0),
                         Event("issue", "get_all_documents", 0)>>]]
  /\ isProcessing' = TRUE
  /\ tick' = "started"
  /\ UNCHANGED <<documentPriorities, cacheStrategy, intervalSet, init, api,
                 calledWith>>
  /\ UNCHANGED <<ragVars, contextVars, accessVars, liveVars, storeVars>>

\* The timer fires.  With the flag set the callback returns at once;
\* otherwise it sets the flag and recalculateAllPriorities issues
\* get_all_documents.
Tick ==
  /\ intervalSet
  /\ Settled
  /\ IF isProcessing
     THEN /\ tick' = "dropped"
          /\ UNCHANGED <<isProcessing, cyc>>
     ELSE /\ \E k \in 1..MaxCycles :
               /\ cyc[k].pc = "idle"
               /\ \A j \in 1..(k - 1) : cyc[j].pc # "idle"
               /\ cyc' = [cyc EXCEPT ![k] =
                    [IdleCycle EXCEPT
                       !.pc = "get_all_documents",
                       !.log = <<Event("enter", "recalculateAllPriorities", 0),
                                 Event("issue", "get_all_documents", 0)>>]]
          /\ isProcessing' = TRUE
          /\ tick' = "started"
  /\ UNCHANGED <<documentPriorities, cacheStrategy, intervalSet, init, api,
                 calledWith>>
  /\ UNCHANGED <<ragVars, contextVars, accessVars, liveVars, storeVars>>

\* get_all_documents completes: on failure recalculateAllPriorities logs it
\* and returns, otherwise its loop starts.
GetAllDocumentsDone(k, ok, allDocuments) ==
  /\ cyc[k].pc = "get_all_documents"
  /\ Settled
  /\ LET c == Failed(Done(cyc[k], "get_all_documents"), "get_all_documents", ok)
     IN  IF ok
         THEN RecalculateFrom(k, [c EXCEPT !.allDocuments = allDocuments, !.i = 0])
         ELSE /\ UNCHANGED <<documentPriorities, calledWith>>
              /\ EvictLowPriorityDocuments(k, c)
  /\ UNCHANGED <<cacheStrategy, isProcessing, intervalSet, init, api, tick>>
  /\ UNCHANGED <<ragVars, contextVars, accessVars, liveVars, storeVars>>

\* save_document_priority of the recompute completes: persistDocumentPriority
\* catches a failure, and the loop goes on.
SaveDocumentPriorityDone(k, ok) ==
  /\ cyc[k].pc = "save_document_priority"
  /\ Settled
  /\ RecalculateFrom(k, Failed(Done(cyc[k], "save_document_priority"),
                               "save_document_priority", ok))
  /\ UNCHANGED <<cacheStrategy, isProcessing, intervalSet, init, api, tick>>
  /\ UNCHANGED <<ragVars, contextVars, accessVars, liveVars, storeVars>>

\* Mutant of EvictDocumentDone: an evicted document is also deleted from the
\* priority table.
EvictDocumentDoneRemoving(k, ok) ==
  /\ cyc[k].pc = "evict_document_from_cache"
  /\ Settled
  /\ EvictFrom(k, Failed(Done(cyc[k], "evict_document_from_cache"),
                         "evict_document_from_cache", ok))
  /\ documentPriorities' =
       IF ok
       THEN LET Kept(e) == e.documentId # cyc[k].toEvict[cyc[k].i].documentId
            IN  SelectSeq(documentPriorities, Kept)
       ELSE documentPriorities
  /\ UNCHANGED <<cacheStrategy, isProcessing, intervalSet, init, api, tick,
                 calledWith>>
  /\ UNCHANGED <<ragVars, contextVars, accessVars, liveVars, storeVars>>

\* Mutant of EvictDocumentDone: the loop body has no try/catch, so a failure
\* reaches the catch of the callback and ends the cycle.
EvictDocumentDoneAborting(k, ok) ==
  /\ cyc[k].pc = "evict_document_from_cache"
  /\ Settled
  /\ LET c == Failed(Done(cyc[k], "evict_document_from_cache"),
                     "evict_document_from_cache", ok)
     IN  IF ok
         THEN EvictFrom(k, c)
         ELSE cyc' = [cyc EXCEPT ![k] = [c EXCEPT !.pc = "finally"]]
  /\ UNCHANGED <<documentPriorities, cacheStrategy, isProcessing, intervalSet,
                 init, api, tick, calledWith>>
  /\ UNCHANGED <<ragVars, contextVars, accessVars, liveVars, storeVars>>

\* evict_document_from_cache completes: the loop body catches a failure.
EvictDocumentDone(k, ok) ==
  /\ cyc[k].pc = "evict_document_from_cache"
  /\ Settled
  /\ EvictFrom(k, Failed(Done(cyc[k], "evict_document_from_cache"),
                         "evict_document_from_cache", ok))
  /\ UNCHANGED <<documentPriorities, cacheStrategy, isProcessing, intervalSet,
                 init, api, tick, calledWith>>
  /\ UNCHANGED <<ragVars, contextVars, accessVars, liveVars, storeVars>>

\* ensure_document_cached completes: the loop body catches a failure.
EnsureDocumentCachedDone(k, ok) ==
  /\ cyc[k].pc = "ensure_document_cached"
  /\ Settled
  /\ PreloadFrom(k, Failed(Done(cyc[k], "ensure_document_cached"),
                           "ensure_document_cached", ok))
  /\ UNCHANGED <<documentPriorities, cacheStrategy, isProcessing, intervalSet,
                 init, api, tick, calledWith>>
  /\ UNCHANGED <<ragVars, contextVars, accessVars, liveVars, storeVars>>

\* Mutant of CycleFinally: the callback has no finally block, so the flag
\* stays set when the cycle is over.
CycleFinallyFlagLeft(k) ==
  /\ cyc[k].pc = "finally"
  /\ cyc' = [cyc EXCEPT ![k] = IdleCycle]
  /\ tick' = "none"
  /\ UNCHANGED <<documentPriorities, cacheStrategy, isProcessing, intervalSet,
                 init, api, calledWith>>
  /\ UNCHANGED <<ragVars, contextVars, accessVars, liveVars, storeVars>>

\* The finally block of the callback clears the flag.
CycleFinally(k) ==
  /\ cyc[k].pc = "finally"
  /\ cyc' = [cyc EXCEPT ![k] = IdleCycle]
  /\ isProcessing' = FALSE
  /\ tick' = "none"
  /\ UNCHANGED <<documentPriorities, cacheStrategy, intervalSet, init, api,
                 calledWith>>
  /\ UNCHANGED <<ragVars, contextVars, accessVars, liveVars, storeVars>>

\* ---------------------------------------------------------- RagContextManager
\* A string is the sequence of its characters (one-character strings).
CHARS_PER_TOKEN == 4

\* Math.ceil(text.length / CHARS_PER_TOKEN)
EstimateTokens(text) == (Len(text) + CHARS_PER_TOKEN - 1) \div CHARS_PER_TOKEN

\* n copies of the character c
Rep(c, n) == [i \in 1..n |-> c]

\* The elements of a sequence at the positions of a set, in their order
RECURSIVE Pick(_, _)
Pick(order, positions) ==
  IF positions = {} THEN <<>>
  ELSE LET i == CHOOSE x \in positions : \A y \in positions : x <= y
       IN  <<order[i]>> \o Pick(order, positions \ {i})

Reverse(order) == [i \in 1..Len(order) |-> order[Len(order) + 1 - i]]

\* The characters that String.prototype.trim removes (those used here)
Whitespace == {" ", "\n"}

\* String.prototype.trim
Trim(s) ==
  IF \A i \in 1..Len(s) : s[i] \in Whitespace THEN <<>>
  ELSE LET first == CHOOSE i \in 1..Len(s) :
                      /\ s[i] \notin Whitespace
                      /\ \A j \in 1..(i - 1) : s[j] \in Whitespace
           back == CHOOSE k \in 0..(Len(s) - 1) :
                     /\ s[Len(s) - k] \notin Whitespace
                     /\ \A j \in 0..(k - 1) : s[Len(s) - j] \in Whitespace
       IN  SubSeq(s, first, Len(s) - back)

\* String.prototype.split on a set of separator characters; with runs, a
\* maximal run of separators is one separator (the regular expression
\* /[.!?]+/), otherwise each separator character is one (split(' ')).
RECURSIVE Split(_, _, _)
Split(s, separators, runs) ==
  IF \A i \in 1..Len(s) : s[i] \notin separators THEN <<s>>
  ELSE LET from == CHOOSE i \in 1..Len(s) :
                     /\ s[i] \in separators
                     /\ \A j \in 1..(i - 1) : s[j] \notin separators
           to == IF runs
                 THEN CHOOSE i \in from..Len(s) :
                        /\ \A j \in from..i : s[j] \in separators
                        /\ (i = Len(s) \/ s[i + 1] \notin separators)
                 ELSE from
       IN  <<SubSeq(s, 1, from - 1)>>
             \o Split(SubSeq(s, to + 1, Len(s)), separators, runs)

\* The decimal digits of a natural number
RECURSIVE Decimal(_)
Decimal(n) ==
  LET digit == <<"0", "1", "2", "3", "4", "5", "6", "7", "8", "9">>[(n % 10) + 1]
  IN  IF n < 10 THEN <<digit>> ELSE Decimal(n \div 10) \o <<digit>>

\* A score field of a chunk in thousandths; `|| 0` makes a missing one 0.
ScoreOf(chunk, field) == IF field \in DOMAIN chunk THEN chunk[field] ELSE 0

\* calculateCombinedScore, in 1/10000
CalculateCombinedScore(chunk) ==
  ScoreOf(chunk, "similarity_score") * 7 + ScoreOf(chunk, "bm25_score") * 3

\* Number.prototype.toFixed(3) of a non-negative score given in 1/10000
ToFixed3(score) ==
  LET thousandths == (score + 5) \div 10
      fraction == thousandths % 1000
  IN  Decimal(thousandths \div 1000) \o <<".">>
        \o <<Decimal(fraction \div 100)[1], Decimal((fraction \div 10) % 10)[1],
             Decimal(fraction % 10)[1]>>

\* formatChunkText
FormatChunkText(chunk, includeScores) ==
  LET text == Trim(chunk.content)
  IN  IF includeScores
      THEN <<"[", "S", "c", "o", "r", "e", ":", " ">>
             \o ToFixed3(CalculateCombinedScore(chunk)) \o <<"]", " ">> \o text
      ELSE text

\* truncateChunk, first loop: sentences are re-joined with '.' while the
\* candidate stays within the limit.
RECURSIVE AccumulateSentences(_, _, _)
AccumulateSentences(sentences, truncatedContent, limit) ==
  IF sentences = <<>> THEN truncatedContent
  ELSE LET candidateContent == truncatedContent \o Head(sentences) \o <<".">>
       IN  IF Len(candidateContent) > limit THEN truncatedContent
           ELSE AccumulateSentences(Tail(sentences), candidateContent, limit)

\* truncateChunk, second loop: words are re-joined, each preceded by ' '.
RECURSIVE AccumulateWords(_, _, _)
AccumulateWords(words, truncatedContent, limit) ==
  IF words = <<>> THEN truncatedContent
  ELSE LET candidateContent == truncatedContent \o <<" ">> \o Head(words)
       IN  IF Len(candidateContent) > limit THEN truncatedContent
           ELSE AccumulateWords(Tail(words), candidateContent, limit)

\* Mutant of TruncateChunk: the cut content is returned without '...'.
TruncateChunkNoEllipsis(chunk, availableTokens, includeScores) ==
  LET availableChars == availableTokens * CHARS_PER_TOKEN
      content == Trim(chunk.content)
  IN  FormatChunkText(
        [chunk EXCEPT !.content =
           SubSeq(content, 1, Min(Len(content), Max(0, availableChars - 20)))],
        includeScores)

\* truncateChunk
TruncateChunk(chunk, availableTokens, includeScores) ==
  LET availableChars == availableTokens * CHARS_PER_TOKEN
      content == Trim(chunk.content)
      bySentences ==
        AccumulateSentences(Split(content, {".", "!", "?"}, TRUE), <<>>,
                            availableChars - 20)
      byWords ==
        IF 2 * Len(bySentences) < availableChars
        THEN AccumulateWords(Split(content, {" "}, FALSE), <<>>,
                             availableChars - 20)
        ELSE bySentences
      truncatedContent ==
        IF Len(byWords) = 0
        THEN SubSeq(content, 1, Min(Len(content), Max(0, availableChars - 20)))
        ELSE byWords
  IN  IF Len(content) <= availableChars
      THEN FormatChunkText(chunk, includeScores)
      ELSE FormatChunkText(
             [chunk EXCEPT !.content = truncatedContent \o <<".", ".", ".">>],
             includeScores)

\* Array.prototype.sort with the comparator scoreB - scoreA: a stable sort by
\* descending combined score, as an insertion sort.
InsertChunk(sorted, chunk) ==
  LET before == Cardinality({i \in 1..Len(sorted) :
                   CalculateCombinedScore(sorted[i])
                     >= CalculateCombinedScore(chunk)})
  IN  SubSeq(sorted, 1, before) \o <<chunk>>
        \o SubSeq(sorted, before + 1, Len(sorted))

RECURSIVE SortChunks(_)
SortChunks(chunks) ==
  IF chunks = <<>> THEN <<>>
  ELSE InsertChunk(SortChunks(SubSeq(chunks, 1, Len(chunks) - 1)),
                   chunks[Len(chunks)])

\* 'Relevant document context:\n\n'
Header ==
  <<"R", "e", "l", "e", "v", "a", "n", "t", " ", "d", "o", "c", "u", "m", "e",
    "n", "t", " ", "c", "o", "n", "t", "e", "x", "t", ":", "\n", "\n">>

\* The value of an optional argument that has a default
Arg(args, name, default) == IF name \in DOMAIN args THEN args[name] ELSE default

\* Mutant of CanTruncate: any chunk that does not fit may be truncated.
CanTruncateAnyChunk(packed, maxRagTokens) ==
  maxRagTokens - packed.tokensUsed > 100

\* formatContextForAI, lines 428-430: the chunk that does not fit is
\* truncated when it is the first one and more than 100 tokens are left.
CanTruncate(packed, maxRagTokens) ==
  /\ packed.chunksIncluded = 0
  /\ maxRagTokens - packed.tokensUsed > 100

\* formatContextForAI, the loop over sortedChunks from chunk n on
RECURSIVE AddChunks(_, _, _, _, _)
AddChunks(sortedChunks, n, packed, maxRagTokens, includeScores) ==
  IF n > Len(sortedChunks) THEN packed
  ELSE
    LET chunk == sortedChunks[n]
        chunkText == FormatChunkText(chunk, includeScores)
        chunkTokens == EstimateTokens(chunkText)
        availableTokens == maxRagTokens - packed.tokensUsed
    IN  IF packed.tokensUsed + chunkTokens > maxRagTokens
        THEN IF CanTruncate(packed, maxRagTokens)
             THEN [context |-> packed.context
                                 \o TruncateChunk(chunk, availableTokens,
                                                  includeScores)
                                 \o <<"\n", "\n">>,
                   tokensUsed |-> maxRagTokens,
                   chunksIncluded |-> 1,
                   chunksDropped |-> Len(sortedChunks) - 1]
             ELSE [packed EXCEPT !.chunksDropped =
                                   Len(sortedChunks) - packed.chunksIncluded]
        ELSE AddChunks(sortedChunks, n + 1,
                       [packed EXCEPT !.context = @ \o chunkText \o <<"\n", "\n">>,
                                      !.tokensUsed = @ + chunkTokens,
                                      !.chunksIncluded = @ + 1],
                       maxRagTokens, includeScores)

\* The RagContextResult for no chunks
EmptyResult ==
  [context |-> <<>>, tokensUsed |-> 0, chunksIncluded |-> 0, chunksDropped |-> 0]

\* The state of formatContextForAI before its loop
HeaderOnly ==
  [context |-> Header, tokensUsed |-> EstimateTokens(Header),
   chunksIncluded |-> 0, chunksDropped |-> 0]

\* Mutant of FormatContextForAI: an empty list is packed like any other.
FormatContextForAINoEarlyReturn(args) ==
  LET chunks == Arg(args, "chunks", <<>>)
      packed == AddChunks(SortChunks(chunks), 1, HeaderOnly,
                          Arg(args, "maxRagTokens", 1500),
                          Arg(args, "includeScores", FALSE))
  IN  [packed EXCEPT !.context = Trim(@)]

\* formatContextForAI(chunks, maxRagTokens = 1500, includeScores = false);
\* args has a field for each argument that the call passes.
FormatContextForAI(args) ==
  IF "chunks" \notin DOMAIN args \/ Len(args.chunks) = 0 THEN EmptyResult
  ELSE LET packed == AddChunks(SortChunks(args.chunks), 1, HeaderOnly,
                               Arg(args, "maxRagTokens", 1500),
                               Arg(args, "includeScores", FALSE))
       IN  [packed EXCEPT !.context = Trim(@)]

\* calculateOptimalTokenAllocation, line 549: the reduce over chunk.content
RECURSIVE TotalRagTokens(_)
TotalRagTokens(ragChunks) ==
  IF ragChunks = <<>> THEN 0
  ELSE EstimateTokens(Head(ragChunks).content) + TotalRagTokens(Tail(ragChunks))

\* Mutant of EnsureNonNegative: a negative ragTokens is kept.
EnsureNonNegativeSkipped(allocation, totalTokenBudget) == allocation

\* calculateOptimalTokenAllocation, lines 563-566
EnsureNonNegative(allocation, totalTokenBudget) ==
  IF allocation.ragTokens < 0
  THEN [ragTokens |-> 0, conversationTokens |-> totalTokenBudget]
  ELSE allocation

\* Mutant of EnsureMinimumConversation: the minimum is not enforced.
EnsureMinimumConversationSkipped(allocation, total, minConversationTokens) ==
  allocation

\* calculateOptimalTokenAllocation, lines 558-567
EnsureMinimumConversation(allocation, total, minConversationTokens) ==
  IF allocation.conversationTokens < minConversationTokens
  THEN EnsureNonNegative(
         [ragTokens |-> total - minConversationTokens,
          conversationTokens |-> minConversationTokens],
         total)
  ELSE allocation

\* calculateOptimalTokenAllocation(ragChunks, totalTokenBudget = 4000,
\* minConversationTokens = 1500, maxRagTokens = 2000)
CalculateOptimalTokenAllocation(args) ==
  LET totalTokenBudget == Arg(args, "totalTokenBudget", 4000)
      allocatedRagTokens ==
        Min(TotalRagTokens(args.ragChunks), Arg(args, "maxRagTokens", 2000))
  IN  IF "ragChunks" \notin DOMAIN args \/ Len(args.ragChunks) = 0
      THEN [ragTokens |-> 0, conversationTokens |-> totalTokenBudget]
      ELSE EnsureMinimumConversation(
             [ragTokens |-> allocatedRagTokens,
              conversationTokens |-> totalTokenBudget - allocatedRagTokens],
             totalTokenBudget, Arg(args, "minConversationTokens", 1500))

\* ------------------------------------------------ calls of RagContextManager
\* A caller invokes formatContextForAI; the function is synchronous.
CallFormatContextForAI(args) ==
  /\ rag.op = "idle"
  /\ rag' = [op |-> "formatContextForAI", args |-> args,
             result |-> FormatContextForAI(args)]
  /\ UNCHANGED <<priorityVars, contextVars, accessVars, liveVars, storeVars>>

\* A caller invokes calculateOptimalTokenAllocation.
CallCalculateOptimalTokenAllocation(args) ==
  /\ rag.op = "idle"
  /\ rag' = [op |-> "calculateOptimalTokenAllocation", args |-> args,
             result |-> CalculateOptimalTokenAllocation(args)]
  /\ UNCHANGED <<priorityVars, contextVars, accessVars, liveVars, storeVars>>

\* AgentService, RAG context assembly: for a non-empty search result the
\* budget of 4000 is allocated and the chunks are packed into ragTokens.
RagContextAssembly(ragChunks) ==
  /\ rag.op = "idle"
  /\ Len(ragChunks) > 0
  /\ LET tokenAllocation ==
           CalculateOptimalTokenAllocation(
             [ragChunks |-> ragChunks, totalTokenBudget |-> 4000])
         args == [chunks |-> ragChunks,
                  maxRagTokens |-> tokenAllocation.ragTokens]
     IN  rag' = [op |-> "ragContextAssembly", args |-> args,
                 tokenAllocation |-> tokenAllocation,
                 result |-> FormatContextForAI(args)]
  /\ UNCHANGED <<priorityVars, contextVars, accessVars, liveVars, storeVars>>

\* The caller has consumed the result.
RagReturn ==
  /\ rag.op # "idle"
  /\ rag' = IdleRag
  /\ UNCHANGED <<priorityVars, contextVars, accessVars, liveVars, storeVars>>

\* ------------------------------------------------ ContextIntelligenceService
\* Scores and confidences are in thousandths.
MAX_CACHED_DOCUMENTS == 10
MIN_RELEVANCE_SCORE == 700

\* undefined, the value of a call that returns nothing
Undefined == [undefined |-> TRUE]

\* Array.prototype.sort with a comparator keyB - keyA: the stable sort of a
\* list by descending keys, keys[i] being the key of list[i]
SortDescending(list, keys) ==
  LET Rank(i) == 1 + Cardinality({j \in 1..Len(list) :
                       \/ keys[j] > keys[i]
                       \/ (keys[j] = keys[i] /\ j < i)})
  IN  [p \in 1..Len(list) |-> list[CHOOSE i \in 1..Len(list) : Rank(i) = p]]

\* Array.prototype.filter on the elements at the positions of keep
Filter(list, keep) == Pick(list, {i \in 1..Len(list) : keep[i]})

\* Map.prototype.get and the update of an entry's field by Map.prototype.set
\* on a key that is present (the entry keeps its place)
CacheHas(cache, id) == \E i \in 1..Len(cache) : cache[i].id = id

CacheGet(cache, id) == cache[CHOOSE i \in 1..Len(cache) : cache[i].id = id]

CacheSetStatus(cache, id, status) ==
  [i \in 1..Len(cache) |->
     IF cache[i].id = id THEN [cache[i] EXCEPT !.embedding_status = status]
     ELSE cache[i]]

CacheBumpAccess(cache, id) ==
  [i \in 1..Len(cache) |->
     IF cache[i].id = id THEN [cache[i] EXCEPT !.access_count = @ + 1]
     ELSE cache[i]]

\* loadCachedDocuments, lines 84-90
SortCached(cached) ==
  SortDescending(cached,
    [i \in 1..Len(cached) |->
       cached[i].access_count * 1000 + cached[i].relevance_score * 100])

\* selectAutoDocuments, lines 258-262: the fallback on the cache
FallbackDocuments(cache) ==
  LET relevant ==
        Filter(cache, [i \in 1..Len(cache) |->
                         cache[i].relevance_score >= MIN_RELEVANCE_SCORE])
      sorted ==
        SortDescending(relevant,
          [i \in 1..Len(relevant) |->
             relevant[i].relevance_score + relevant[i].access_count * 1000])
  IN  [i \in 1..Min(Len(sorted), MAX_CACHED_DOCUMENTS) |-> sorted[i].id]

\* selectAutoDocuments
SelectAutoDocuments(analysis, cache) ==
  IF analysis = Null \/ "suggested_documents" \notin DOMAIN analysis
  THEN FallbackDocuments(cache)
  ELSE LET suggestions == analysis.suggested_documents
           confident ==
             Filter(suggestions,
                    [i \in 1..Len(suggestions) |->
                       suggestions[i].confidence >= MIN_RELEVANCE_SCORE])
       IN  [i \in 1..Min(Len(confident), MAX_CACHED_DOCUMENTS)
              |-> confident[i].document_id]

\* updateDocumentSuggestions, lines 177-182
SuggestedIds(suggestions) ==
  LET confident ==
        Filter(suggestions,
               [i \in 1..Len(suggestions) |->
                  suggestions[i].confidence >= MIN_RELEVANCE_SCORE])
      sorted ==
        SortDescending(confident,
                       [i \in 1..Len(confident) |-> confident[i].confidence])
  IN  [i \in 1..Min(Len(sorted), MAX_CACHED_DOCUMENTS) |-> sorted[i].document_id]

\* The analysis that analyzeConversation stores when the backend call fails
MinimalAnalysis ==
  [topics |-> <<>>, entities |-> <<>>, intent |-> "unknown",
   suggested_documents |-> <<>>]

\* The session that initializeSession creates when the backend call fails
FallbackSession ==
  [id |-> "fallback", active_documents |-> <<>>, suggested_documents |-> <<>>,
   context_mode |-> "auto"]

\* An invocation in a slot of contextCalls: what it was called with, the
\* external call it awaits (or "returned"), the ids that
\* processDocumentEmbeddings loops over and its position, the value it
\* returned, whether it raised, the external calls it has issued and the
\* response to the last of them that completed.
Call(op, pc, args) ==
  [op |-> op, pc |-> pc, args |-> args, ids |-> <<>>, i |-> 0,
   result |-> Undefined, raised |-> FALSE, log |-> <<>>,
   response |-> Undefined]

\* The response to an external call: its value, or its failure
Response(ok, value) == IF ok THEN [ok |-> TRUE, value |-> value] ELSE [ok |-> FALSE]

\* An external call, as recorded in a log
Invoke(command, documentId) == [command |-> command, documentId |-> documentId]

\* Continuations run before any timer or completion is delivered: nothing
\* else happens while a caller has yet to take a returned value.
ContextSettled ==
  \A k \in 1..MaxCalls : contextCalls[k].pc # "returned"

\* The slot that a new invocation takes
FreeSlot(k) ==
  /\ contextCalls[k] = IdleCall
  /\ \A j \in 1..(k - 1) : contextCalls[j] # IdleCall

\* ---------------------------------------------------- initializeContextSystem
\* get_cached_context_documents completes: loadCachedDocuments stores the
\* sorted documents, or an empty Map on failure; initializeSession starts.
LoadCachedDocumentsDone(ok, cached) ==
  /\ contextInit = "get_cached_context_documents"
  /\ ContextSettled
  /\ contextCache' = IF ok THEN SortCached(cached) ELSE <<>>
  /\ contextInit' = "initialize_context_session"
  /\ UNCHANGED <<contextSession, contextAnalysis, documentPriorityQueue,
                 contextProcessing, contextTimer, contextCalls>>
  /\ UNCHANGED <<priorityVars, ragVars, accessVars, liveVars, storeVars>>

\* initialize_context_session completes: the session is the backend's, or
\* the fallback session on failure; then the background timer is registered.
InitializeSessionDone(ok, session) ==
  /\ contextInit = "initialize_context_session"
  /\ ContextSettled
  /\ contextSession' = IF ok THEN session ELSE FallbackSession
  /\ contextInit' = "done"
  /\ contextTimer' = TRUE
  /\ UNCHANGED <<contextCache, contextAnalysis, documentPriorityQueue,
                 contextProcessing, contextCalls>>
  /\ UNCHANGED <<priorityVars, ragVars, accessVars, liveVars, storeVars>>

\* ---------------------------------------------------- processDocumentEmbeddings
\* The first position after `from` of a document that is in the cache and
\* whose embedding is not ready (0: none): the loop of lines 198-214 issues
\* process_document_embeddings for it and awaits the call.
NextToProcess(cache, ids, from) ==
  LET todo == {i \in (from + 1)..Len(ids) :
                 /\ CacheHas(cache, ids[i])
                 /\ CacheGet(cache, ids[i]).embedding_status # "ready"}
  IN  IF todo = {} THEN 0 ELSE CHOOSE i \in todo : \A j \in todo : i <= j

\* The invocation c goes on with processDocumentEmbeddings(ids) from the
\* position after `from`: it awaits the next call, or the loop is over and
\* the invocation ends (analyzeConversation returns its analysis and clears
\* isProcessing in its finally; the timer callback just ends).
ProcessFrom(k, c, cache, ids, from) ==
  LET next == NextToProcess(cache, ids, from)
  IN  IF next # 0
      THEN /\ contextCalls' =
                [contextCalls EXCEPT ![k] =
                   [c EXCEPT !.pc = "process_document_embeddings",
                             !.ids = ids, !.i = next,
                             !.log = Append(@, Invoke("process_document_embeddings",
                                                      ids[next]))]]
           /\ contextProcessing' =
                IF c.op = "analyzeConversation" THEN TRUE ELSE contextProcessing
      ELSE IF c.op = "analyzeConversation"
      THEN /\ contextCalls' =
                [contextCalls EXCEPT ![k] = [c EXCEPT !.pc = "returned"]]
           /\ contextProcessing' = FALSE
      ELSE /\ contextCalls' = [contextCalls EXCEPT ![k] = IdleCall]
           /\ UNCHANGED contextProcessing

\* process_document_embeddings completes: on success the document's status
\* becomes 'processing'; a failure is logged; the loop goes on.
ProcessDocumentEmbeddingsDone(k, ok) ==
  /\ contextCalls[k].pc = "process_document_embeddings"
  /\ ContextSettled
  /\ LET c == [contextCalls[k] EXCEPT !.response = Response(ok, Undefined)]
         cache == IF ok THEN CacheSetStatus(contextCache, c.ids[c.i], "processing")
                  ELSE contextCache
     IN  /\ contextCache' = cache
         /\ ProcessFrom(k, c, cache, c.ids, c.i)
  /\ UNCHANGED <<contextSession, contextAnalysis, documentPriorityQueue,
                 contextInit, contextTimer>>
  /\ UNCHANGED <<priorityVars, ragVars, accessVars, liveVars, storeVars>>

\* Mutant of AnalyzeConversation: the return for invalid messages leaves
\* isProcessing set.
AnalyzeConversationFlagLeft(k, args) ==
  /\ FreeSlot(k)
  /\ ContextSettled
  /\ LET c == Call("analyzeConversation", "returned", args)
     IN  IF contextProcessing
         THEN /\ contextCalls' = [contextCalls EXCEPT ![k] = c]
              /\ UNCHANGED contextProcessing
         ELSE IF "messages" \notin DOMAIN args \/ Len(args.messages) = 0
         THEN /\ contextCalls' = [contextCalls EXCEPT ![k] =
                                    [c EXCEPT !.result = Null]]
              /\ contextProcessing' = TRUE
         ELSE /\ contextCalls' =
                   [contextCalls EXCEPT ![k] =
                      [c EXCEPT !.pc = "analyze_conversation_context",
                                !.log = <<Invoke("analyze_conversation_context", 0)>>]]
              /\ contextProcessing' = TRUE
  /\ UNCHANGED <<contextCache, contextSession, contextAnalysis,
                 documentPriorityQueue, contextInit, contextTimer>>
  /\ UNCHANGED <<priorityVars, ragVars, accessVars, liveVars, storeVars>>

\* ---------------------------------------------------------- analyzeConversation
\* analyzeConversation(messages) up to its await: it returns at once when an
\* analysis is in progress, returns null for invalid messages, and otherwise
\* sets isProcessing and invokes analyze_conversation_context.
AnalyzeConversation(k, args) ==
  /\ FreeSlot(k)
  /\ ContextSettled
  /\ LET c == Call("analyzeConversation", "returned", args)
     IN  IF contextProcessing
         THEN /\ contextCalls' = [contextCalls EXCEPT ![k] = c]
              /\ UNCHANGED contextProcessing
         ELSE IF "messages" \notin DOMAIN args \/ Len(args.messages) = 0
         THEN /\ contextCalls' = [contextCalls EXCEPT ![k] =
                                    [c EXCEPT !.result = Null]]
              /\ UNCHANGED contextProcessing
         ELSE /\ contextCalls' =
                   [contextCalls EXCEPT ![k] =
                      [c EXCEPT !.pc = "analyze_conversation_context",
                                !.log = <<Invoke("analyze_conversation_context", 0)>>]]
              /\ contextProcessing' = TRUE
  /\ UNCHANGED <<contextCache, contextSession, contextAnalysis,
                 documentPriorityQueue, contextInit, contextTimer>>
  /\ UNCHANGED <<priorityVars, ragVars, accessVars, liveVars, storeVars>>

\* analyze_conversation_context completes.  On failure the minimal analysis
\* is stored and null returned; a null analysis returns null; otherwise the
\* analysis is stored and, when it has suggestions and a session exists,
\* updateDocumentSuggestions stores the suggested ids in the session and in
\* the queue and processes their embeddings.
AnalyzeConversationContextDone(k, ok, analysis) ==
  /\ contextCalls[k].pc = "analyze_conversation_context"
  /\ ContextSettled
  /\ LET c == [contextCalls[k] EXCEPT !.response = Response(ok, analysis)]
         end == [c EXCEPT !.pc = "returned", !.result = Null]
     IN  IF ~ok
         THEN /\ contextAnalysis' = MinimalAnalysis
              /\ contextCalls' = [contextCalls EXCEPT ![k] = end]
              /\ contextProcessing' = FALSE
              /\ UNCHANGED <<contextSession, documentPriorityQueue>>
         ELSE IF analysis = Null
         THEN /\ contextCalls' = [contextCalls EXCEPT ![k] = end]
              /\ contextProcessing' = FALSE
              /\ UNCHANGED <<contextAnalysis, contextSession,
                             documentPriorityQueue>>
         ELSE IF "suggested_documents" \in DOMAIN analysis
                   /\ contextSession # Null
         THEN LET documentIds == SuggestedIds(analysis.suggested_documents)
              IN  /\ contextAnalysis' = analysis
                  /\ contextSession' =
                       [contextSession EXCEPT !.suggested_documents = documentIds]
                  /\ documentPriorityQueue' = documentIds
                  /\ ProcessFrom(k, [c EXCEPT !.result = analysis],
                                 contextCache, documentIds, 0)
         ELSE /\ contextAnalysis' = analysis
              /\ contextCalls' = [contextCalls EXCEPT ![k] =
                                    [end EXCEPT !.result = analysis]]
              /\ contextProcessing' = FALSE
              /\ UNCHANGED <<contextSession, documentPriorityQueue>>
  /\ UNCHANGED <<contextCache, contextInit, contextTimer>>
  /\ UNCHANGED <<priorityVars, ragVars, accessVars, liveVars, storeVars>>

\* -------------------------------------------------------------- selectDocuments
\* Array.from(contextCache.keys())
CacheIds(cache) == [i \in 1..Len(cache) |-> cache[i].id]

\* Mutant of SelectDocumentsAwaits: 'all' always fetches the document list.
SelectDocumentsAwaitsAlwaysFetches(args, cache) ==
  IF args.mode = "search" /\ "query" \in DOMAIN args /\ args.query # ""
  THEN "search_context_documents"
  ELSE IF args.mode = "all" THEN "get_all_documents"
  ELSE "none"

\* The external call that selectDocuments(mode, query) awaits, "none" when
\* it returns without one
SelectDocumentsAwaits(args, cache) ==
  IF args.mode = "search" /\ "query" \in DOMAIN args /\ args.query # ""
  THEN "search_context_documents"
  ELSE IF args.mode = "all" /\ Len(cache) = 0 THEN "get_all_documents"
  ELSE "none"

\* Mutant of SelectDocumentsResult: an unknown mode selects like 'all'.
SelectDocumentsResultDefaultAll(args, analysis, cache) ==
  IF args.mode = "auto" THEN SelectAutoDocuments(analysis, cache)
  ELSE IF args.mode \in {"manual", "search", "none"} THEN <<>>
  ELSE CacheIds(cache)

\* What selectDocuments(mode, query) returns when it awaits no call
SelectDocumentsResult(args, analysis, cache) ==
  IF args.mode = "auto" THEN SelectAutoDocuments(analysis, cache)
  ELSE IF args.mode = "all" THEN CacheIds(cache)
  ELSE <<>>

\* selectDocuments(mode, query) up to its await or return
SelectDocuments(k, args) ==
  /\ FreeSlot(k)
  /\ ContextSettled
  /\ LET awaits == SelectDocumentsAwaits(args, contextCache)
         c == Call("selectDocuments", "returned", args)
     IN  contextCalls' =
           [contextCalls EXCEPT ![k] =
              IF awaits = "none"
              THEN [c EXCEPT !.result =
                      SelectDocumentsResult(args, contextAnalysis, contextCache)]
              ELSE [c EXCEPT !.pc = awaits, !.log = <<Invoke(awaits, 0)>>]]
  /\ UNCHANGED <<contextCache, contextSession, contextAnalysis,
                 documentPriorityQueue, contextProcessing, contextInit,
                 contextTimer>>
  /\ UNCHANGED <<priorityVars, ragVars, accessVars, liveVars, storeVars>>

\* Mutant of SelectDocumentsDone: a failure is raised to the caller.
SelectDocumentsDoneRaises(k, ok, ids) ==
  /\ contextCalls[k].pc \in {"search_context_documents", "get_all_documents"}
  /\ ContextSettled
  /\ contextCalls' =
       [contextCalls EXCEPT ![k] =
          [@ EXCEPT !.pc = "returned", !.response = Response(ok, ids),
                    !.result = IF ok THEN ids ELSE Undefined,
                    !.raised = ~ok]]
  /\ UNCHANGED <<contextCache, contextSession, contextAnalysis,
                 documentPriorityQueue, contextProcessing, contextInit,
                 contextTimer>>
  /\ UNCHANGED <<priorityVars, ragVars, accessVars, liveVars, storeVars>>

\* search_context_documents or get_all_documents completes: selectDocuments
\* returns the ids, or the empty list on failure.
SelectDocumentsDone(k, ok, ids) ==
  /\ contextCalls[k].pc \in {"search_context_documents", "get_all_documents"}
  /\ ContextSettled
  /\ contextCalls' =
       [contextCalls EXCEPT ![k] =
          [@ EXCEPT !.pc = "returned", !.response = Response(ok, ids),
                    !.result = IF ok THEN ids ELSE <<>>]]
  /\ UNCHANGED <<contextCache, contextSession, contextAnalysis,
                 documentPriorityQueue, contextProcessing, contextInit,
                 contextTimer>>
  /\ UNCHANGED <<priorityVars, ragVars, accessVars, liveVars, storeVars>>

\* ------------------------------------------------- the session's active documents
\* Array.prototype.includes
Includes(list, x) == \E i \in 1..Len(list) : list[i] = x

\* addDocumentToContext(documentId) up to its await or return: without a
\* session, or with the id already active, nothing happens; otherwise the
\* id is pushed and, when the document is cached, its access count is
\* bumped and update_document_access invoked.
AddDocumentToContext(k, documentId) ==
  /\ FreeSlot(k)
  /\ ContextSettled
  /\ IF contextSession = Null THEN TRUE
     ELSE IF Includes(contextSession.active_documents, documentId) THEN TRUE
     ELSE IF CacheHas(contextCache, documentId)
     THEN CacheGet(contextCache, documentId).access_count < MaxAccessCount
     ELSE TRUE
  /\ LET c == Call("addDocumentToContext", "returned", [documentId |-> documentId])
     IN  IF contextSession = Null
            \/ Includes(contextSession.active_documents, documentId)
         THEN /\ contextCalls' = [contextCalls EXCEPT ![k] = c]
              /\ UNCHANGED <<contextSession, contextCache>>
         ELSE /\ contextSession' =
                   [contextSession EXCEPT !.active_documents = Append(@, documentId)]
              /\ IF CacheHas(contextCache, documentId)
                 THEN /\ contextCache' = CacheBumpAccess(contextCache, documentId)
                      /\ contextCalls' =
                           [contextCalls EXCEPT ![k] =
                              [c EXCEPT !.pc = "update_document_access",
                                        !.log = <<Invoke("update_document_access",
                                                         documentId)>>]]
                 ELSE /\ contextCalls' = [contextCalls EXCEPT ![k] = c]
                      /\ UNCHANGED contextCache
  /\ UNCHANGED <<contextAnalysis, documentPriorityQueue, contextProcessing,
                 contextInit, contextTimer>>
  /\ UNCHANGED <<priorityVars, ragVars, accessVars, liveVars, storeVars>>

\* update_document_access completes: addDocumentToContext returns; it has no
\* handler, so a failure is raised to its caller.
UpdateDocumentAccessDone(k, ok) ==
  /\ contextCalls[k].pc = "update_document_access"
  /\ ContextSettled
  /\ contextCalls' =
       [contextCalls EXCEPT ![k] =
          [@ EXCEPT !.pc = "returned", !.response = Response(ok, Undefined),
                    !.raised = ~ok]]
  /\ UNCHANGED <<contextCache, contextSession, contextAnalysis,
                 documentPriorityQueue, contextProcessing, contextInit,
                 contextTimer>>
  /\ UNCHANGED <<priorityVars, ragVars, accessVars, liveVars, storeVars>>

\* setContextMode(mode) up to its await or return: with a session, the mode
\* is stored and update_context_session invoked.
SetContextMode(k, mode) ==
  /\ FreeSlot(k)
  /\ ContextSettled
  /\ LET c == Call("setContextMode", "returned", [mode |-> mode])
     IN  IF contextSession = Null
         THEN /\ contextCalls' = [contextCalls EXCEPT ![k] = c]
              /\ UNCHANGED contextSession
         ELSE /\ contextSession' = [contextSession EXCEPT !.context_mode = mode]
              /\ contextCalls' =
                   [contextCalls EXCEPT ![k] =
                      [c EXCEPT !.pc = "update_context_session",
                                !.log = <<Invoke("update_context_session", 0)>>]]
  /\ UNCHANGED <<contextCache, contextAnalysis, documentPriorityQueue,
                 contextProcessing, contextInit, contextTimer>>
  /\ UNCHANGED <<priorityVars, ragVars, accessVars, liveVars, storeVars>>

\* update_context_session completes: setContextMode returns; it has no
\* handler, so a failure is raised to its caller.
UpdateContextSessionDone(k, ok) ==
  /\ contextCalls[k].pc = "update_context_session"
  /\ ContextSettled
  /\ contextCalls' =
       [contextCalls EXCEPT ![k] =
          [@ EXCEPT !.pc = "returned", !.response = Response(ok, Undefined),
                    !.raised = ~ok]]
  /\ UNCHANGED <<contextCache, contextSession, contextAnalysis,
                 documentPriorityQueue, contextProcessing, contextInit,
                 contextTimer>>
  /\ UNCHANGED <<priorityVars, ragVars, accessVars, liveVars, storeVars>>

\* Mutant of RemoveDocumentFromContext: splice is called with the index -1
\* of an absent id, which removes the last element.
RemoveDocumentFromContextUnguarded(documentId) ==
  /\ ContextSettled
  /\ contextSession # Null
  /\ contextSession' =
       [contextSession EXCEPT !.active_documents =
          LET index == IF Includes(@, documentId)
                       THEN CHOOSE i \in 1..Len(@) :
                              /\ @[i] = documentId
                              /\ \A j \in 1..(i - 1) : @[j] # documentId
                       ELSE Len(@)
          IN  SubSeq(@, 1, index - 1) \o SubSeq(@, index + 1, Len(@))]
  /\ UNCHANGED <<contextCache, contextAnalysis, documentPriorityQueue,
                 contextProcessing, contextInit, contextTimer, contextCalls>>
  /\ UNCHANGED <<priorityVars, ragVars, accessVars, liveVars, storeVars>>

\* removeDocumentFromContext(documentId): indexOf and splice
RemoveDocumentFromContext(documentId) ==
  /\ ContextSettled
  /\ contextSession # Null
  /\ contextSession' =
       [contextSession EXCEPT !.active_documents =
          IF Includes(@, documentId)
          THEN LET index == CHOOSE i \in 1..Len(@) :
                              /\ @[i] = documentId
                              /\ \A j \in 1..(i - 1) : @[j] # documentId
               IN  SubSeq(@, 1, index - 1) \o SubSeq(@, index + 1, Len(@))
          ELSE @]
  /\ UNCHANGED <<contextCache, contextAnalysis, documentPriorityQueue,
                 contextProcessing, contextInit, contextTimer, contextCalls>>
  /\ UNCHANGED <<priorityVars, ragVars, accessVars, liveVars, storeVars>>

\* clearContext
ClearContext ==
  /\ ContextSettled
  /\ contextSession # Null
  /\ contextSession' = [contextSession EXCEPT !.active_documents = <<>>,
                                              !.suggested_documents = <<>>]
  /\ contextAnalysis' = Null
  /\ UNCHANGED <<contextCache, documentPriorityQueue, contextProcessing,
                 contextInit, contextTimer, contextCalls>>
  /\ UNCHANGED <<priorityVars, ragVars, accessVars, liveVars, storeVars>>

\* ------------------------------------------------------ startBackgroundProcessing
\* Mutant of ContextTick: the callback does not look at isProcessing.
ContextTickWhileProcessing(k) ==
  /\ contextTimer
  /\ FreeSlot(k)
  /\ ContextSettled
  /\ IF Len(documentPriorityQueue) > 0
     THEN LET nextDocId == Head(documentPriorityQueue)
              c == Call("backgroundProcessing", "process_document_embeddings",
                        [documentId |-> nextDocId])
          IN  /\ documentPriorityQueue' = Tail(documentPriorityQueue)
              /\ IF NextToProcess(contextCache, <<nextDocId>>, 0) # 0
                 THEN ProcessFrom(k, c, contextCache, <<nextDocId>>, 0)
                 ELSE UNCHANGED <<contextCalls, contextProcessing>>
     ELSE UNCHANGED <<documentPriorityQueue, contextCalls, contextProcessing>>
  /\ UNCHANGED <<contextCache, contextSession, contextAnalysis, contextInit,
                 contextTimer>>
  /\ UNCHANGED <<priorityVars, ragVars, accessVars, liveVars, storeVars>>

\* The timer callback: with a non-empty queue and no analysis in progress it
\* shifts the head of the queue and processes that document's embeddings.
ContextTick(k) ==
  /\ contextTimer
  /\ FreeSlot(k)
  /\ ContextSettled
  /\ IF Len(documentPriorityQueue) > 0 /\ ~contextProcessing
     THEN LET nextDocId == Head(documentPriorityQueue)
              c == Call("backgroundProcessing", "process_document_embeddings",
                        [documentId |-> nextDocId])
          IN  /\ documentPriorityQueue' = Tail(documentPriorityQueue)
              /\ IF NextToProcess(contextCache, <<nextDocId>>, 0) # 0
                 THEN ProcessFrom(k, c, contextCache, <<nextDocId>>, 0)
                 ELSE UNCHANGED <<contextCalls, contextProcessing>>
     ELSE UNCHANGED <<documentPriorityQueue, contextCalls, contextProcessing>>
  /\ UNCHANGED <<contextCache, contextSession, contextAnalysis, contextInit,
                 contextTimer>>
  /\ UNCHANGED <<priorityVars, ragVars, accessVars, liveVars, storeVars>>

\* The caller takes the value that an invocation returned or raised.
ContextReturn(k) ==
  /\ contextCalls[k].pc = "returned"
  /\ contextCalls' = [contextCalls EXCEPT ![k] = IdleCall]
  /\ UNCHANGED <<contextCache, contextSession, contextAnalysis,
                 documentPriorityQueue, contextProcessing, contextInit,
                 contextTimer>>
  /\ UNCHANGED <<priorityVars, ragVars, accessVars, liveVars, storeVars>>

\* ------------------------------------------- exported API with several calls
\* updateDocumentAccess, preloadSimilarDocuments and evictLowPriorityDocuments
\* called by the UI, which starts such a call when no other call of the
\* exported API is pending.  The invocation is the record `access`: what it was
\* called with, the external call it awaits (or "returned"), the document
\* that updateDocumentAccess works on and its contextRelevance, the entry it
\* computed, the list that a loop goes over and its position, the value it
\* returned, whether it raised, the external calls it has issued, and
\* whether it has changed the priority table.
AccessCall(op, pc, args) ==
  [op |-> op, pc |-> pc, args |-> args, documentId |-> 0, relevance |-> 0,
   priority |-> NoPriority, list |-> <<>>, i |-> 0, result |-> Undefined,
   raised |-> FALSE, log |-> <<>>, changed |-> FALSE]

\* The arguments updateDocumentAccess passes to calculateDocumentPriority,
\* lines 162-170: one more access, accessed now
AccessArgs(docInfo, contextRelevance) ==
  [accessCount |-> docInfo.access_count + 1,
   elapsedDays |-> 0,
   contextRelevance |-> contextRelevance,
   embeddingReady |-> (docInfo.embedding_status = "completed"),
   fileSizeKiB |-> docInfo.file_size,
   userPreference |-> docInfo.user_preference]

\* updateDocumentAccess(documentId, contextRelevance) is entered by the
\* invocation c: it invokes get_document_info.
EnterUpdateDocumentAccess(c, documentId, contextRelevance) ==
  [c EXCEPT !.pc = "get_document_info", !.documentId = documentId,
            !.relevance = contextRelevance,
            !.log = Append(@, Invoke("get_document_info", documentId))]

\* updateDocumentAccess returns value in the invocation c: to the UI, or to
\* the loop of preloadSimilarDocuments (lines 226-228), which ignores the
\* value, goes on with the next similar document and returns the list after
\* the last.
LeaveUpdateDocumentAccess(c, value) ==
  IF c.op = "updateDocumentAccess"
  THEN [c EXCEPT !.pc = "returned", !.result = value]
  ELSE IF c.i < Len(c.list)
  THEN EnterUpdateDocumentAccess([c EXCEPT !.i = @ + 1], c.list[c.i + 1], 600)
  ELSE [c EXCEPT !.pc = "returned", !.result = c.list]

\* updateDocumentAccess(documentId, contextRelevance?) is called
UpdateDocumentAccess(args) ==
  /\ access = IdleCall
  /\ api = IdleApi
  /\ Settled
  /\ access' = EnterUpdateDocumentAccess(
                 AccessCall("updateDocumentAccess", "idle", args),
                 args.documentId, Arg(args, "contextRelevance", 0))
  /\ UNCHANGED priorityVars
  /\ UNCHANGED <<ragVars, contextVars, liveVars, storeVars>>

\* get_document_info completes.  With the document's info the entry is
\* computed and stored by calculateDocumentPriority, which invokes
\* save_document_priority; a failure is caught by updateDocumentAccess,
\* which returns null.
GetDocumentInfoDone(ok, docInfo) ==
  /\ access.pc = "get_document_info"
  /\ Settled
  /\ IF ok
     THEN LET a == AccessArgs(docInfo, access.relevance)
              documentPriority ==
                DocumentPriority(access.documentId, a,
                                 cacheStrategy.priorityThreshold)
          IN  /\ documentPriorities' = MapSet(documentPriorities, documentPriority)
              /\ calledWith' = [calledWith EXCEPT ![access.documentId] = a]
              /\ access' =
                   [access EXCEPT !.pc = "save_document_priority",
                                  !.priority = documentPriority,
                                  !.changed = @ \/ documentPriorities' # documentPriorities,
                                  !.log = Append(@, Invoke("save_document_priority",
                                                           access.documentId))]
     ELSE /\ access' = LeaveUpdateDocumentAccess(access, Null)
          /\ UNCHANGED <<documentPriorities, calledWith>>
  /\ UNCHANGED <<cacheStrategy, isProcessing, intervalSet, init, cyc, api, tick>>
  /\ UNCHANGED <<ragVars, contextVars, liveVars, storeVars>>

\* save_document_priority completes; persistDocumentPriority catches a
\* failure; updateDocumentAccess invokes update_document_access.
AccessSaveDone(ok) ==
  /\ access.pc = "save_document_priority"
  /\ Settled
  /\ access' = [access EXCEPT !.pc = "update_document_access",
                              !.log = Append(@, Invoke("update_document_access",
                                                       access.documentId))]
  /\ UNCHANGED priorityVars
  /\ UNCHANGED <<ragVars, contextVars, liveVars, storeVars>>

\* Mutant of AccessUpdateDone: the failure is not caught.
AccessUpdateDoneUncaught(ok) ==
  /\ access.pc = "update_document_access"
  /\ Settled
  /\ access' = IF ok THEN LeaveUpdateDocumentAccess(access, access.priority)
               ELSE [access EXCEPT !.pc = "returned", !.raised = TRUE]
  /\ UNCHANGED priorityVars
  /\ UNCHANGED <<ragVars, contextVars, liveVars, storeVars>>

\* update_document_access completes: updateDocumentAccess returns the entry,
\* or null from its catch.
AccessUpdateDone(ok) ==
  /\ access.pc = "update_document_access"
  /\ Settled
  /\ access' = LeaveUpdateDocumentAccess(access,
                 IF ok THEN access.priority ELSE Null)
  /\ UNCHANGED priorityVars
  /\ UNCHANGED <<ragVars, contextVars, liveVars, storeVars>>

\* preloadSimilarDocuments(documentId) is called: with the setting off it
\* returns [], otherwise it invokes get_similar_documents.
PreloadSimilarDocuments(documentId) ==
  /\ access = IdleCall
  /\ api = IdleApi
  /\ Settled
  /\ LET c == AccessCall("preloadSimilarDocuments", "returned",
                         [documentId |-> documentId])
     IN  access' =
           IF ~cacheStrategy.preloadSimilarDocuments
           THEN [c EXCEPT !.result = <<>>]
           ELSE [c EXCEPT !.pc = "get_similar_documents",
                          !.log = <<Invoke("get_similar_documents", documentId)>>]
  /\ UNCHANGED priorityVars
  /\ UNCHANGED <<ragVars, contextVars, liveVars, storeVars>>

\* get_similar_documents completes: the loop over the similar documents
\* starts, or preloadSimilarDocuments returns [] from its catch.
GetSimilarDocumentsDone(ok, similarDocs) ==
  /\ access.pc = "get_similar_documents"
  /\ Settled
  /\ access' = IF ok
               THEN LeaveUpdateDocumentAccess(
                      [access EXCEPT !.list = similarDocs, !.i = 0], Undefined)
               ELSE [access EXCEPT !.pc = "returned", !.result = <<>>]
  /\ UNCHANGED priorityVars
  /\ UNCHANGED <<ragVars, contextVars, liveVars, storeVars>>

\* evictLowPriorityDocuments at its loop test, in the invocation c
AccessEvictFrom(c) ==
  IF c.i < Len(c.list)
  THEN [c EXCEPT !.pc = "evict_document_from_cache", !.i = @ + 1,
                 !.log = Append(@, Invoke("evict_document_from_cache",
                                          c.list[c.i + 1].documentId))]
  ELSE [c EXCEPT !.pc = "returned"]

\* evictLowPriorityDocuments() is called
CallEvictLowPriorityDocuments ==
  /\ access = IdleCall
  /\ api = IdleApi
  /\ Settled
  /\ access' = AccessEvictFrom(
                 [AccessCall("evictLowPriorityDocuments", "idle", <<>>)
                    EXCEPT !.list = ToEvict(documentPriorities, cacheStrategy)])
  /\ UNCHANGED priorityVars
  /\ UNCHANGED <<ragVars, contextVars, liveVars, storeVars>>

\* evict_document_from_cache completes; a failure is caught and logged, and
\* the loop goes on.
AccessEvictDone(ok) ==
  /\ access.pc = "evict_document_from_cache"
  /\ Settled
  /\ access' = AccessEvictFrom(access)
  /\ UNCHANGED priorityVars
  /\ UNCHANGED <<ragVars, contextVars, liveVars, storeVars>>

\* The caller takes the value that the invocation returned.
AccessReturn ==
  /\ access.pc = "returned"
  /\ access' = IdleCall
  /\ UNCHANGED priorityVars
  /\ UNCHANGED <<ragVars, contextVars, liveVars, storeVars>>

\* -------------------------------------------------------------------- useLiveAI
\* The live response assistant.  `live` holds its refs (response is "" or
\* "text": only whether it is empty matters to the code), streamListener
\* (whether a listener is registered) and analysisTimeout (the pending
\* timeout callback, or Null).  A suggestion is modelled by the kind of its
\* id; its text, timestamp, contextLength and priority are left out.
SuggestionItem(id) == [id |-> id]

\* The value of error after a failure
ErrorMessage(message) == [message |-> message]

\* A message of the conversation, and one without content
Message(isPreview) == [isPreview |-> isPreview, type |-> "user", content |-> "hi"]

MalformedMessage == [isPreview |-> FALSE, type |-> "user"]

\* messages.filter(msg => !msg.isPreview)
RealMessages(messages) ==
  LET IsReal(msg) == ~msg.isPreview
  IN  SelectSeq(messages, IsReal)

\* The messages that the context is built from, lines 575-577: the last 3
\* that are no previews
ContextMessages(messages) ==
  LET real == RealMessages(messages)
  IN  SubSeq(real, Max(1, Len(real) - 2), Len(real))

\* msg.content.length raises a TypeError for a message without content
ContextRaises(messages) ==
  \E i \in 1..Len(ContextMessages(messages)) :
    "content" \notin DOMAIN ContextMessages(messages)[i]

\* The lines of conversationContext, lines 578-585; the joined string is
\* empty after trim() just when there is no line
ConversationContext(messages) ==
  LET last == ContextMessages(messages)
  IN  [i \in 1..Len(last) |->
         [speaker |-> IF last[i].type = "user" THEN "User" ELSE "System",
          content |-> last[i].content]]

\* if (suggestions.value.length > 5) suggestions.value = suggestions.value.slice(0, 5)
KeepFive(suggestions) ==
  IF Len(suggestions) > 5 THEN SubSeq(suggestions, 1, 5) ELSE suggestions

\* An invocation in a slot of liveCalls: the function that the UI or a timer
\* called, what it awaits (or "returned"), the arguments of its call of
\* analyzeConversationContext, whether that call passed the guards, and the
\* external calls it has issued.
LiveCall(op, messages, isPreemptive) ==
  [op |-> op, pc |-> "idle", messages |-> messages,
   isPreemptive |-> isPreemptive, ran |-> FALSE, log |-> <<>>]

\* A run of analyzeConversationContext awaits an external call
InFlight(c) ==
  c.pc \in {"generate_conversational_ai", "generateMultipleResponseTypes"}

LiveSettled ==
  \A k \in 1..MaxCalls : liveCalls[k].pc # "returned"

FreeLiveSlot(k) ==
  /\ liveCalls[k] = IdleCall
  /\ \A j \in 1..(k - 1) : liveCalls[j] # IdleCall

\* The finally of analyzeConversationContext, lines 659-666
FinallyAnalysis(l, isPreemptive) ==
  [l EXCEPT !.isAnalyzing = FALSE,
            !.preemptiveAnalysisInProgress = IF isPreemptive THEN FALSE ELSE @,
            !.isProcessing = IF isPreemptive THEN @ ELSE FALSE]

\* analyzeConversationContext has returned to the function that called it:
\* startLiveAI goes through its finally (line 519); the others end.
LeaveAnalysis(l, c) ==
  [live |-> IF c.op = "startLiveAI" THEN [l EXCEPT !.isProcessing = FALSE] ELSE l,
   call |-> [c EXCEPT !.pc = "returned"]]

\* Mutant of EnterAnalysis: the guard of lines 555-558 is missing.
EnterAnalysisUnguarded(l, c, tempo) ==
  IF ~l.isActive \/ l.sessionId = Null
  THEN LeaveAnalysis(l, c)
  ELSE LET ran == [c EXCEPT !.ran = TRUE]
           set == [l EXCEPT !.isAnalyzing = TRUE,
                            !.preemptiveAnalysisInProgress =
                               IF c.isPreemptive THEN TRUE ELSE @,
                            !.isProcessing = IF c.isPreemptive THEN @ ELSE TRUE]
           quick == tempo.urgencyLevel = "high" \/ tempo.pace = "rapid"
       IN  IF ContextRaises(c.messages)
           THEN LeaveAnalysis(
                  FinallyAnalysis([set EXCEPT !.error = ErrorMessage("TypeError")],
                                  c.isPreemptive), ran)
           ELSE IF ConversationContext(c.messages) = <<>>
           THEN LeaveAnalysis(FinallyAnalysis(set, c.isPreemptive), ran)
           ELSE [live |-> [set EXCEPT !.suggestions =
                             IF quick
                             THEN KeepFive(<<SuggestionItem("quick")>> \o @)
                             ELSE @],
                 call |-> [ran EXCEPT !.pc = "generate_conversational_ai",
                                      !.log = Append(@, "generate_conversational_ai")]]

\* analyzeConversationContext(messages, isPreemptive) up to its first
\* external call, lines 551-626, called by the invocation c with the live
\* state l; tempo is what analyzeConversationTempo finds.  It returns at once
\* when the assistant is not active or an analysis is in progress.  Otherwise
\* it sets its flags, builds the context (a failure goes through catch and
\* finally), and with a context adds the quick suggestion for a rapid
\* conversation (generateQuickResponse, lines 279-294, calls nothing) and
\* invokes generate_conversational_ai.
EnterAnalysis(l, c, tempo) ==
  IF ~l.isActive \/ l.sessionId = Null
  THEN LeaveAnalysis(l, c)
  ELSE IF l.isAnalyzing \/ (c.isPreemptive /\ l.preemptiveAnalysisInProgress)
  THEN LeaveAnalysis(l, c)
  ELSE LET ran == [c EXCEPT !.ran = TRUE]
           set == [l EXCEPT !.isAnalyzing = TRUE,
                            !.preemptiveAnalysisInProgress =
                               IF c.isPreemptive THEN TRUE ELSE @,
                            !.isProcessing = IF c.isPreemptive THEN @ ELSE TRUE]
           quick == tempo.urgencyLevel = "high" \/ tempo.pace = "rapid"
       IN  IF ContextRaises(c.messages)
           THEN LeaveAnalysis(
                  FinallyAnalysis([set EXCEPT !.error = ErrorMessage("TypeError")],
                                  c.isPreemptive), ran)
           ELSE IF ConversationContext(c.messages) = <<>>
           THEN LeaveAnalysis(FinallyAnalysis(set, c.isPreemptive), ran)
           ELSE [live |-> [set EXCEPT !.suggestions =
                             IF quick
                             THEN KeepFive(<<SuggestionItem("quick")>> \o @)
                             ELSE @],
                 call |-> [ran EXCEPT !.pc = "generate_conversational_ai",
                                      !.log = Append(@, "generate_conversational_ai")]]

\* analyzeConversationContext(messages, isPreemptive?) is called by the UI
AnalyzeConversationContext(k, messages, isPreemptive, tempo) ==
  /\ FreeLiveSlot(k)
  /\ LiveSettled
  /\ LET to == EnterAnalysis(
                 live, LiveCall("analyzeConversationContext", messages,
                                isPreemptive), tempo)
     IN  /\ live' = to.live
         /\ liveCalls' = [liveCalls EXCEPT ![k] = to.call]
  /\ UNCHANGED <<priorityVars, ragVars, contextVars, accessVars, storeVars>>

\* generate_conversational_ai completes: a failure goes through catch and
\* finally; otherwise a regular analysis goes on with
\* generateMultipleResponseTypes and a preemptive one ends.
GenerateConversationalAiDone(k, ok) ==
  /\ liveCalls[k].pc = "generate_conversational_ai"
  /\ LiveSettled
  /\ LET c == liveCalls[k]
         to == IF ~ok
               THEN LeaveAnalysis(
                      FinallyAnalysis(
                        [live EXCEPT !.error = ErrorMessage("Failed to analyze conversation")],
                        c.isPreemptive), c)
               ELSE IF c.isPreemptive
               THEN LeaveAnalysis(FinallyAnalysis(live, TRUE), c)
               ELSE [live |-> live,
                     call |-> [c EXCEPT !.pc = "generateMultipleResponseTypes",
                                        !.log = Append(@, "generateMultipleResponseTypes")]]
     IN  /\ live' = to.live
         /\ liveCalls' = [liveCalls EXCEPT ![k] = to.call]
  /\ UNCHANGED <<priorityVars, ragVars, contextVars, accessVars, storeVars>>

\* generateMultipleResponseTypes returns n typed responses (it catches the
\* failures of its calls, lines 157-246): they are added at the end of the
\* suggestions, the first five are kept, and the analysis ends.
GenerateMultipleResponseTypesDone(k, n) ==
  /\ liveCalls[k].pc = "generateMultipleResponseTypes"
  /\ LiveSettled
  /\ LET c == liveCalls[k]
         typed == [i \in 1..n |-> SuggestionItem("typed")]
         to == LeaveAnalysis(
                 FinallyAnalysis(
                   [live EXCEPT !.suggestions = KeepFive(@ \o typed)], FALSE), c)
     IN  /\ live' = to.live
         /\ liveCalls' = [liveCalls EXCEPT ![k] = to.call]
  /\ UNCHANGED <<priorityVars, ragVars, contextVars, accessVars, storeVars>>

\* startLiveAI(messages) up to its await of listen, lines 408-418
StartLiveAI(k, messages) ==
  /\ FreeLiveSlot(k)
  /\ LiveSettled
  /\ live' = [live EXCEPT !.error = Null, !.isProcessing = TRUE,
                          !.sessionId = [id |-> "live-ai"]]
  /\ liveCalls' = [liveCalls EXCEPT ![k] =
                     [LiveCall("startLiveAI", messages, FALSE)
                        EXCEPT !.pc = "listen", !.log = <<"listen">>]]
  /\ UNCHANGED <<priorityVars, ragVars, contextVars, accessVars, storeVars>>

\* listen completes, lines 418-520: the listener is registered and the
\* assistant active; with messages the first analysis starts, without them
\* the three default suggestions are set; a failure is stored in error; the
\* finally clears isProcessing.
ListenDone(k, ok, tempo) ==
  /\ liveCalls[k].pc = "listen"
  /\ LiveSettled
  /\ LET c == liveCalls[k]
         active == [live EXCEPT !.streamListener = TRUE, !.isActive = TRUE]
         to == IF ~ok
               THEN LeaveAnalysis([live EXCEPT !.error = ErrorMessage("Failed to start Live AI")], c)
               ELSE IF Len(c.messages) > 0
               THEN EnterAnalysis(active, c, tempo)
               ELSE LeaveAnalysis(
                      [active EXCEPT !.suggestions =
                         <<SuggestionItem("standby-ack"), SuggestionItem("standby-q"),
                           SuggestionItem("welcome")>>], c)
     IN  /\ live' = to.live
         /\ liveCalls' = [liveCalls EXCEPT ![k] = to.call]
  /\ UNCHANGED <<priorityVars, ragVars, contextVars, accessVars, storeVars>>

\* stopLiveAI(), lines 523-549: nothing without a session; otherwise the
\* listener is removed, the refs are reset and the pending timeout cleared.
StopLiveAI ==
  /\ LiveSettled
  /\ live' = IF live.sessionId = Null
             THEN live
             ELSE [live EXCEPT !.streamListener = FALSE, !.isActive = FALSE,
                               !.response = "", !.suggestions = <<>>,
                               !.sessionId = Null, !.analysisTimeout = Null]
  /\ UNCHANGED liveCalls
  /\ UNCHANGED <<priorityVars, ragVars, contextVars, accessVars, storeVars>>

\* An event of the stream arrives at the listener, lines 418-478
StreamEvent(type) ==
  /\ live.streamListener
  /\ LiveSettled
  /\ live' =
       IF type = "start"
       THEN [live EXCEPT !.isProcessing = TRUE, !.response = "",
                         !.suggestions =
                            IF Len(@) < 2
                            THEN <<SuggestionItem("standby-ack"),
                                   SuggestionItem("standby-q")>> \o @
                            ELSE @]
       ELSE IF type = "chunk"
       THEN [live EXCEPT !.response = "text"]
       ELSE IF type = "complete"
       THEN [live EXCEPT !.isProcessing = FALSE,
                         !.suggestions =
                            IF live.response # ""
                            THEN KeepFive(<<SuggestionItem("suggestion")>> \o @)
                            ELSE @]
       ELSE [live EXCEPT !.error = ErrorMessage("stream error"), !.isProcessing = FALSE]
  /\ UNCHANGED liveCalls
  /\ UNCHANGED <<priorityVars, ragVars, contextVars, accessVars, storeVars>>

\* onConversationChange(messages), lines 682-751, called by the invocation c
\* with the live state l, any pending timeout having fired or not.  wait is
\* shouldWaitForUserToFinish(), trigger whether a preemptive analysis is due
\* (lines 711-713 apart from the flag), soon whether the last analysis is
\* more recent than the minimum interval.
ConversationChanged(l, c, wait, trigger, soon, tempo) ==
  LET real == RealMessages(c.messages)
      cleared == [l EXCEPT !.analysisTimeout = Null]
      to == IF trigger /\ ~l.preemptiveAnalysisInProgress
            THEN EnterAnalysis(cleared, [c EXCEPT !.messages = real,
                                                  !.isPreemptive = TRUE], tempo)
            ELSE [live |-> cleared, call |-> IdleCall]
  IN  IF ~l.isActive \/ Len(real) = 0
      THEN [live |-> l, call |-> IdleCall]
      ELSE IF wait
      THEN [live |-> [l EXCEPT !.analysisTimeout =
                        [callback |-> "recheck", messages |-> c.messages]],
            call |-> IdleCall]
      ELSE IF soon /\ Len(to.live.suggestions) > 0 /\ tempo.urgencyLevel # "high"
      THEN to
      ELSE [live |-> [to.live EXCEPT !.analysisTimeout =
                        [callback |-> "debounced", messages |-> real]],
            call |-> to.call]

\* onConversationChange(messages) is called by the UI
OnConversationChange(k, messages, wait, trigger, soon, tempo) ==
  /\ FreeLiveSlot(k)
  /\ LiveSettled
  /\ LET to == ConversationChanged(
                 live, LiveCall("onConversationChange", messages, FALSE),
                 wait, trigger, soon, tempo)
     IN  /\ live' = to.live
         /\ liveCalls' = [liveCalls EXCEPT ![k] = to.call]
  /\ UNCHANGED <<priorityVars, ragVars, contextVars, accessVars, storeVars>>

\* The pending timeout fires: the recheck of line 704 calls
\* onConversationChange again; the debounced callback of lines 735-750
\* returns when the assistant is not active or isProcessing is set, and
\* otherwise awaits a regular analysis.
AnalysisTimeoutFires(k, wait, trigger, soon, tempo) ==
  /\ live.analysisTimeout # Null
  /\ FreeLiveSlot(k)
  /\ LiveSettled
  /\ LET fired == [live EXCEPT !.analysisTimeout = Null]
         messages == live.analysisTimeout.messages
         to == IF live.analysisTimeout.callback = "recheck"
               THEN ConversationChanged(
                      fired, LiveCall("onConversationChange", messages, FALSE),
                      wait, trigger, soon, tempo)
               ELSE IF ~live.isActive \/ live.isProcessing
               THEN [live |-> fired, call |-> IdleCall]
               ELSE EnterAnalysis(fired, LiveCall("timeout", messages, FALSE), tempo)
     IN  /\ live' = to.live
         /\ liveCalls' = [liveCalls EXCEPT ![k] = to.call]
  /\ UNCHANGED <<priorityVars, ragVars, contextVars, accessVars, storeVars>>

\* The caller takes the value that the invocation returned.
LiveReturn(k) ==
  /\ liveCalls[k].pc = "returned"
  /\ liveCalls' = [liveCalls EXCEPT ![k] = IdleCall]
  /\ UNCHANGED live
  /\ UNCHANGED <<priorityVars, ragVars, contextVars, accessVars, storeVars>>

\* ---------------------------------------------------------- conversation store
\* A ConversationSession object: isActive, and whether endTime is set.  The
\* messages, the name and the times are left out: no operation reads them.
Session(isActive, ended) == [isActive |-> isActive, ended |-> ended]

\* sessions.value.find(s => s.id === sessionId): the object, or 0 (undefined)
FindSession(list, sessionId) ==
  IF \E i \in 1..Len(list) : list[i] = sessionId THEN sessionId ELSE 0

\* sessions.value.findIndex(s => s.id === sessionId), 0 for -1
FindIndex(list, sessionId) ==
  IF \E i \in 1..Len(list) : list[i] = sessionId
  THEN CHOOSE i \in 1..Len(list) :
         list[i] = sessionId /\ \A j \in 1..(i - 1) : list[j] # sessionId
  ELSE 0

\* sessions.value.splice(index, 1)
Splice(list, index) ==
  SubSeq(list, 1, index - 1) \o SubSeq(list, index + 1, Len(list))

\* if (currentSession.value) currentSession.value.isActive = false
DeactivateCurrent(objects) ==
  IF currentSession # 0
  THEN [objects EXCEPT ![currentSession].isActive = FALSE]
  ELSE objects

\* The objects of a parsed list of conversations are new objects.
Loaded(conversations) ==
  [i \in 1..Len(conversations) |-> Len(sessionObjects) + i]

\* A slot of storeCalls for a new invocation
FreeStoreSlot(k) ==
  /\ storeCalls[k] = IdleCall
  /\ \A j \in 1..(k - 1) : storeCalls[j] # IdleCall

\* load_conversations completes, lines 34-56: sessions is replaced by the
\* backend's conversations; on failure by the list that localStorage holds,
\* if it holds one, which is then saved to the backend.
LoadConversationsDone(ok, conversations, stored) ==
  /\ storeLoad = "load_conversations"
  /\ IF ok
     THEN /\ Len(sessionObjects) + Len(conversations) <= MaxSessions
          /\ sessionObjects' = sessionObjects \o conversations
          /\ sessions' = Loaded(conversations)
          /\ storeLoad' = "done"
     ELSE IF "conversations" \in DOMAIN stored
     THEN /\ Len(sessionObjects) + Len(stored.conversations) <= MaxSessions
          /\ sessionObjects' = sessionObjects \o stored.conversations
          /\ sessions' = Loaded(stored.conversations)
          /\ storeLoad' = "save_conversations"
     ELSE /\ storeLoad' = "done"
          /\ UNCHANGED <<sessionObjects, sessions>>
  /\ UNCHANGED <<currentSession, storeCalls>>
  /\ UNCHANGED <<priorityVars, ragVars, contextVars, accessVars, liveVars>>

\* save_conversations of the migration completes (saveSessions catches a
\* failure), and the localStorage item is removed: loadSessions is over,
\* "migrated".
SaveConversationsDone(ok) ==
  /\ storeLoad = "save_conversations"
  /\ storeLoad' = "migrated"
  /\ UNCHANGED <<sessionObjects, sessions, currentSession, storeCalls>>
  /\ UNCHANGED <<priorityVars, ragVars, contextVars, accessVars, liveVars>>

\* createSession(), lines 92-112: the current session is deactivated, and a
\* new active session is pushed and made current.
CreateSession ==
  /\ Len(sessionObjects) < MaxSessions
  /\ sessionObjects' = Append(DeactivateCurrent(sessionObjects), Session(TRUE, FALSE))
  /\ sessions' = Append(sessions, Len(sessionObjects) + 1)
  /\ currentSession' = Len(sessionObjects) + 1
  /\ UNCHANGED <<storeLoad, storeCalls>>
  /\ UNCHANGED <<priorityVars, ragVars, contextVars, accessVars, liveVars>>

\* endSession(sessionId?), lines 114-127: the session found in sessions, or
\* the current one without an argument, is deactivated and gets its endTime;
\* currentSession becomes null when it has the target's id.
EndSession(args) ==
  /\ LET targetSession ==
           IF "sessionId" \in DOMAIN args
           THEN FindSession(sessions, args.sessionId)
           ELSE currentSession
     IN  IF targetSession # 0
         THEN /\ sessionObjects' =
                   [sessionObjects EXCEPT ![targetSession] = Session(FALSE, TRUE)]
              /\ currentSession' =
                   IF currentSession = targetSession THEN 0 ELSE currentSession
         ELSE UNCHANGED <<sessionObjects, currentSession>>
  /\ UNCHANGED <<sessions, storeLoad, storeCalls>>
  /\ UNCHANGED <<priorityVars, ragVars, contextVars, accessVars, liveVars>>

\* switchToSession(sessionId), lines 129-147: when the session is found the
\* current one is deactivated, then the target activated and made current.
SwitchToSession(sessionId) ==
  /\ LET session == FindSession(sessions, sessionId)
     IN  IF session # 0
         THEN /\ sessionObjects' =
                   [DeactivateCurrent(sessionObjects) EXCEPT ![session].isActive = TRUE]
              /\ currentSession' = session
         ELSE UNCHANGED <<sessionObjects, currentSession>>
  /\ UNCHANGED <<sessions, storeLoad, storeCalls>>
  /\ UNCHANGED <<priorityVars, ragVars, contextVars, accessVars, liveVars>>

\* deleteSession(sessionId) up to its await of delete_conversation
DeleteSession(k, sessionId) ==
  /\ FreeStoreSlot(k)
  /\ storeCalls' = [storeCalls EXCEPT ![k] =
                      [op |-> "deleteSession", pc |-> "delete_conversation",
                       sessionId |-> sessionId]]
  /\ UNCHANGED <<sessionObjects, sessions, currentSession, storeLoad>>
  /\ UNCHANGED <<priorityVars, ragVars, contextVars, accessVars, liveVars>>

\* delete_conversation completes, lines 198-220: the session is spliced out
\* of sessions and currentSession becomes null when it has that id; a
\* failure is thrown again and the store is left as it is.
DeleteConversationDone(k, ok) ==
  /\ storeCalls[k].pc = "delete_conversation"
  /\ storeCalls' = [storeCalls EXCEPT ![k] = IdleCall]
  /\ LET sessionIndex == FindIndex(sessions, storeCalls[k].sessionId)
     IN  IF ok /\ sessionIndex # 0
         THEN /\ sessions' = Splice(sessions, sessionIndex)
              /\ currentSession' =
                   IF currentSession = storeCalls[k].sessionId THEN 0
                   ELSE currentSession
         ELSE UNCHANGED <<sessions, currentSession>>
  /\ UNCHANGED <<sessionObjects, storeLoad>>
  /\ UNCHANGED <<priorityVars, ragVars, contextVars, accessVars, liveVars>>

\* importSessionData(sessionData), lines 294-310: data with a session gives
\* a new inactive session with a new id, which is pushed; other data is
\* refused.
ImportSessionData(sessionData) ==
  /\ IF "session" \in DOMAIN sessionData
     THEN /\ Len(sessionObjects) < MaxSessions
          /\ sessionObjects' =
               Append(sessionObjects, [sessionData.session EXCEPT !.isActive = FALSE])
          /\ sessions' = Append(sessions, Len(sessionObjects) + 1)
     ELSE UNCHANGED <<sessionObjects, sessions>>
  /\ UNCHANGED <<currentSession, storeLoad, storeCalls>>
  /\ UNCHANGED <<priorityVars, ragVars, contextVars, accessVars, liveVars>>

\* clearAllSessions() up to its await of clear_all_conversations
ClearAllSessions(k) ==
  /\ FreeStoreSlot(k)
  /\ storeCalls' = [storeCalls EXCEPT ![k] =
                      [op |-> "clearAllSessions", pc |-> "clear_all_conversations"]]
  /\ UNCHANGED <<sessionObjects, sessions, currentSession, storeLoad>>
  /\ UNCHANGED <<priorityVars, ragVars, contextVars, accessVars, liveVars>>

\* clear_all_conversations completes, lines 313-322: sessions is emptied and
\* currentSession becomes null; a failure is logged.
ClearAllConversationsDone(k, ok) ==
  /\ storeCalls[k].pc = "clear_all_conversations"
  /\ storeCalls' = [storeCalls EXCEPT ![k] = IdleCall]
  /\ IF ok
     THEN /\ sessions' = <<>>
          /\ currentSession' = 0
     ELSE UNCHANGED <<sessions, currentSession>>
  /\ UNCHANGED <<sessionObjects, storeLoad>>
  /\ UNCHANGED <<priorityVars, ragVars, contextVars, accessVars, liveVars>>

\* ---------------------------------------------------------- specifications
\* Spec: the service with its background callback and settings updates.
StrategyUpdates == {[maxCachedDocuments |-> m] : m \in 0..MaxCachedSetting}

Next ==
  \/ \E ok \in BOOLEAN, priorities \in PersistedPriorities :
       LoadDocumentPrioritiesDone(ok, priorities)
  \/ \E partial \in StrategyUpdates : UpdateCacheStrategy(partial)
  \/ \E ok \in BOOLEAN : UpdateCacheStrategyDone(ok)
  \/ ApiReturn
  \/ Tick
  \/ \E k \in 1..MaxCycles, ok \in BOOLEAN, allDocuments \in DocumentLists :
       GetAllDocumentsDone(k, ok, allDocuments)
  \/ \E k \in 1..MaxCycles, ok \in BOOLEAN : SaveDocumentPriorityDone(k, ok)
  \/ \E k \in 1..MaxCycles, ok \in BOOLEAN : EvictDocumentDone(k, ok)
  \/ \E k \in 1..MaxCycles, ok \in BOOLEAN : EnsureDocumentCachedDone(k, ok)
  \/ \E k \in 1..MaxCycles : CycleFinally(k)

Spec == Init /\ [][Next]_vars

\* The continuation of the cycle in progress is ready to run: its finally
\* block, or (the external call it awaits having returned) the code after
\* the await, which the event loop runs once no microtask is pending.
CycleStepEnabled ==
  \/ \E k \in 1..MaxCycles : cyc[k].pc = "finally"
  \/ Settled /\ \E k \in 1..MaxCycles : cyc[k].pc # "idle"

\* The cycle in progress takes its next step (every step of a cycle extends
\* its log or ends it; nothing else changes the record of a running cycle).
CycleStep ==
  \E k \in 1..MaxCycles : cyc[k].pc # "idle" /\ cyc'[k] # cyc[k]

\* SpecFair: Spec where a pending return is delivered, the finally block
\* runs, and every external call of a cycle eventually returns and its
\* continuation is run, whatever else the event loop runs in between (strong
\* fairness of CycleStep, whose enabling condition is CycleStepEnabled).
SpecFair ==
  /\ Init /\ [][Next]_vars
  /\ WF_vars(ApiReturn)
  /\ WF_vars(\E k \in 1..MaxCycles : CycleFinally(k))
  /\ (<>[]~CycleStepEnabled \/ []<><<CycleStep>>_vars)

\* SpecApi: the service as the UI calls it, without the timer.
ApiArgs ==
  {[accessCount |-> 100, elapsedDays |-> 0, contextRelevance |-> 1000,
    embeddingReady |-> TRUE, fileSizeKiB |-> 20480, userPreference |-> 1000]}
  \cup {RecalculateArgs(Doc(1, p)) : p \in DocProfiles}

ThresholdUpdates == {[priorityThreshold |-> t] : t \in {30000, 70000}}

NextApi ==
  \/ \E ok \in BOOLEAN, priorities \in PersistedPriorities :
       LoadDocumentPrioritiesDone(ok, priorities)
  \/ \E documentId \in DocIds, a \in ApiArgs :
       CalculateDocumentPriority(documentId, a)
  \/ \E ok \in BOOLEAN : PersistDocumentPriorityDone(ok)
  \/ \E limit \in 0..MaxLimit : GetTopPriorityDocuments(limit)
  \/ \E partial \in ThresholdUpdates : UpdateCacheStrategy(partial)
  \/ \E ok \in BOOLEAN : UpdateCacheStrategyDone(ok)
  \/ ApiReturn

SpecApi == Init /\ [][NextApi]_vars

\* SpecCalc: calculateDocumentPriority on one document, over inputs that
\* reach every branch of the computation: no, a few and very many accesses;
\* a last access in the future, now, a week and most of a year ago; no
\* relevance, a high one and one far above 1; an empty, a medium and a huge
\* file.
CalcArgs ==
  [accessCount : {0, 15, 1000000000},
   elapsedDays : {-30, 0, 7, 300},
   contextRelevance : {0, 750, 3000},
   embeddingReady : BOOLEAN,
   fileSizeKiB : {0, 5120, 1048576},
   userPreference : {0, 750}]

NextCalc ==
  \/ \E a \in CalcArgs : CalculateDocumentPriority(1, a)
  \/ \E ok \in BOOLEAN : PersistDocumentPriorityDone(ok)
  \/ \E partial \in ThresholdUpdates : UpdateCacheStrategy(partial)
  \/ \E ok \in BOOLEAN : UpdateCacheStrategyDone(ok)
  \/ ApiReturn

SpecCalc == Init /\ [][NextCalc]_vars

\* SpecPacker: RagContextManager called on search results.
\* The chunks that a search returns.  Each content is written with a letter
\* of its own, which occurs neither in the header nor in a score prefix, so
\* that the chunks can be told apart in a packed context.
Chunk(content, similarity_score, bm25_score) ==
  [content |-> content, similarity_score |-> similarity_score,
   bm25_score |-> bm25_score]

ChunkPool ==
  << Chunk(Rep("p", 8), 900, 900),
     Chunk(<<" ">> \o Rep("q", 40) \o <<"\n">>, 500, 500),
     [content |-> Rep("z", 4), bm25_score |-> 333],
     Chunk(Rep("y", 4), 900, 900),
     Chunk(Rep("w", 500), 1000, 1000),
     Chunk(Rep("s", 200) \o <<".", " ">> \o Rep("s", 150) \o <<"!", "?", " ">>
             \o Rep("s", 150) \o <<".">>, 1000, 800),
     Chunk(Rep("k", 100) \o <<" ">> \o Rep("k", 100) \o <<" ">>
             \o Rep("k", 100) \o <<" ">> \o Rep("k", 100) \o <<" ">>
             \o Rep("k", 100) \o <<" ">>, 800, 1000),
     Chunk(Rep(" ", 440) \o Rep("h", 8), 950, 950) >>

\* Search results: up to MaxChunks chunks of the pool, in its order or in
\* the reverse order
ChunkLists ==
  {Pick(order, positions) :
     order \in {ChunkPool, Reverse(ChunkPool)},
     positions \in {s \in SUBSET (1..Len(ChunkPool)) :
                      Cardinality(s) \in 1..MaxChunks}}

RagBudgets == {0, 5, 9, 12, 14, 107, 108, 120}

FormatArgs ==
  {[chunks |-> c, maxRagTokens |-> m, includeScores |-> s] :
     c \in ChunkLists \cup {<<>>}, m \in RagBudgets, s \in BOOLEAN}
  \cup {[chunks |-> c] : c \in ChunkLists}
  \cup {[maxRagTokens |-> m] : m \in RagBudgets}

AllocationArgs ==
  {[ragChunks |-> c, totalTokenBudget |-> t, minConversationTokens |-> m,
    maxRagTokens |-> r] :
     c \in ChunkLists \cup {<<>>}, t \in {0, 100, 130}, m \in {0, 120},
     r \in {0, 50, 200}}
  \cup {[ragChunks |-> c, totalTokenBudget |-> t] :
          c \in ChunkLists \cup {<<>>}, t \in {0, 1000, 1600}}
  \cup {[ragChunks |-> c] : c \in ChunkLists}
  \cup {[totalTokenBudget |-> t] : t \in {0, 100}}

NextPacker ==
  \/ \E args \in FormatArgs : CallFormatContextForAI(args)
  \/ \E args \in AllocationArgs : CallCalculateOptimalTokenAllocation(args)
  \/ \E ragChunks \in ChunkLists : RagContextAssembly(ragChunks)
  \/ RagReturn

SpecPacker == Init /\ [][NextPacker]_vars

\* SpecContext: the context intelligence service.
\* What the backend answers.  Document 1 is the most relevant; document 2 is
\* at the relevance threshold and embedded; further documents are below the
\* threshold.
CachedDocument(id) ==
  [id |-> id,
   relevance_score |-> IF id = 1 THEN 900 ELSE IF id = 2 THEN 700 ELSE 500,
   access_count |-> 0,
   embedding_status |-> IF id = 2 THEN "ready" ELSE "pending"]

CachedLists == {<<>>, Reverse([id \in DocIds |-> CachedDocument(id)])}

BackendSessions ==
  {[id |-> "session", active_documents |-> <<>>, suggested_documents |-> <<>>,
    context_mode |-> "auto"]}

Suggestion(document_id, confidence) ==
  [document_id |-> document_id, confidence |-> confidence]

\* null; an analysis without suggestions; and one that suggests document 2
\* at the threshold, and document 1 below it and above it
AnalysisResults ==
  {Null,
   [topics |-> <<>>, entities |-> <<>>, intent |-> "chat"],
   [topics |-> <<>>, entities |-> <<>>, intent |-> "chat",
    suggested_documents |->
      <<Suggestion(2, 700), Suggestion(1, 650), Suggestion(1, 900)>>]}

\* An empty list, a message, no argument, and a value that is not an array
AnalyzeArgs ==
  {[messages |-> <<>>], [messages |-> <<"m">>], [none |-> TRUE],
   [nonArray |-> TRUE]}

ContextModes == {"auto", "manual", "search", "all", "none", "custom"}

SelectArgs ==
  {[mode |-> m] : m \in ContextModes}
  \cup {[mode |-> m, query |-> q] : m \in {"search", "none"}, q \in {"", "q"}}

\* The modes that setContextMode is called with
SetModes == {"auto", "manual"}

\* The ids that search_context_documents and get_all_documents answer with
BackendIds == {Reverse([id \in DocIds |-> id])}

NextContext ==
  \/ \E ok \in BOOLEAN, cached \in CachedLists : LoadCachedDocumentsDone(ok, cached)
  \/ \E ok \in BOOLEAN, session \in BackendSessions :
       InitializeSessionDone(ok, session)
  \/ \E k \in 1..MaxCalls, args \in AnalyzeArgs : AnalyzeConversation(k, args)
  \/ \E k \in 1..MaxCalls, ok \in BOOLEAN, analysis \in AnalysisResults :
       AnalyzeConversationContextDone(k, ok, analysis)
  \/ \E k \in 1..MaxCalls, ok \in BOOLEAN : ProcessDocumentEmbeddingsDone(k, ok)
  \/ \E k \in 1..MaxCalls, args \in SelectArgs : SelectDocuments(k, args)
  \/ \E k \in 1..MaxCalls, ok \in BOOLEAN, ids \in BackendIds :
       SelectDocumentsDone(k, ok, ids)
  \/ \E k \in 1..MaxCalls, documentId \in DocIds :
       AddDocumentToContext(k, documentId)
  \/ \E k \in 1..MaxCalls, ok \in BOOLEAN : UpdateDocumentAccessDone(k, ok)
  \/ \E k \in 1..MaxCalls, mode \in SetModes : SetContextMode(k, mode)
  \/ \E k \in 1..MaxCalls, ok \in BOOLEAN : UpdateContextSessionDone(k, ok)
  \/ \E documentId \in DocIds : RemoveDocumentFromContext(documentId)
  \/ ClearContext
  \/ \E k \in 1..MaxCalls : ContextTick(k)
  \/ \E k \in 1..MaxCalls : ContextReturn(k)

SpecContext == Init /\ [][NextContext]_vars

\* SpecAccess: the exported API of the priority service, every operation
\* with its external calls succeeding or failing.
\* updateDocumentAccess(id), updateDocumentAccess(id, 0.9)
AccessCallArgs ==
  {[documentId |-> id] : id \in DocIds}
  \cup {[documentId |-> id, contextRelevance |-> 900] : id \in DocIds}

\* What get_similar_documents can return
SimilarDocuments == {<<>>, Reverse([id \in DocIds |-> id])}

\* The settings that the calls depend on
AccessStrategyUpdates ==
  {[preloadSimilarDocuments |-> b] : b \in BOOLEAN}
  \cup {[maxCachedDocuments |-> m] : m \in 0..MaxCachedSetting}

\* The documents that get_document_info knows: the hot document with a
\* large file and the cold one
AccessProfiles ==
  {p \in DocProfiles : p.file_size > 0 \/ p.access_count = 0}

\* What get_document_priorities returns: nothing, or the entry of document 2
AccessPersisted ==
  {<<>>,
   <<DocumentPriority(2, RecalculateArgs(Doc(2, CHOOSE p \in DocProfiles : p.access_count = 0)),
                      DefaultStrategy.priorityThreshold)>>}

NextAccess ==
  \/ \E ok \in BOOLEAN, priorities \in AccessPersisted :
       LoadDocumentPrioritiesDone(ok, priorities)
  \/ \E a \in {RecalculateArgs(Doc(1, p)) : p \in AccessProfiles} :
       CalculateDocumentPriority(1, a)
  \/ \E ok \in BOOLEAN : PersistDocumentPriorityDone(ok)
  \/ \E partial \in AccessStrategyUpdates : UpdateCacheStrategy(partial)
  \/ \E ok \in BOOLEAN : UpdateCacheStrategyDone(ok)
  \/ ApiReturn
  \/ \E args \in AccessCallArgs : UpdateDocumentAccess(args)
  \/ \E ok \in BOOLEAN, p \in AccessProfiles :
       GetDocumentInfoDone(ok, Doc(access.documentId, p))
  \/ \E ok \in BOOLEAN : AccessSaveDone(ok)
  \/ \E ok \in BOOLEAN : AccessUpdateDone(ok)
  \/ \E documentId \in DocIds : PreloadSimilarDocuments(documentId)
  \/ \E ok \in BOOLEAN, similarDocs \in SimilarDocuments :
       GetSimilarDocumentsDone(ok, similarDocs)
  \/ CallEvictLowPriorityDocuments
  \/ \E ok \in BOOLEAN : AccessEvictDone(ok)
  \/ AccessReturn

SpecAccess == Init /\ [][NextAccess]_vars

\* SpecBackground: the background callback while the UI switches the
\* settings.
\* backgroundProcessing on and off, and a cache of one document
BackgroundUpdates ==
  {[backgroundProcessing |-> b] : b \in BOOLEAN}
  \cup {[maxCachedDocuments |-> MaxCachedSetting]}

\* What get_all_documents returns: no document, or documents 1..MaxDocs, all
\* hot with a large file
BackgroundLists ==
  {<<>>, [id \in DocIds |-> Doc(id, CHOOSE p \in DocProfiles : p.file_size > 0)]}

NextBackground ==
  \/ \E ok \in BOOLEAN, priorities \in AccessPersisted :
       LoadDocumentPrioritiesDone(ok, priorities)
  \/ \E partial \in BackgroundUpdates : UpdateCacheStrategy(partial)
  \/ \E ok \in BOOLEAN : UpdateCacheStrategyDone(ok)
  \/ ApiReturn
  \/ Tick
  \/ \E k \in 1..MaxCycles, ok \in BOOLEAN, allDocuments \in BackgroundLists :
       GetAllDocumentsDone(k, ok, allDocuments)
  \/ \E k \in 1..MaxCycles, ok \in BOOLEAN : SaveDocumentPriorityDone(k, ok)
  \/ \E k \in 1..MaxCycles, ok \in BOOLEAN : EvictDocumentDone(k, ok)
  \/ \E k \in 1..MaxCycles, ok \in BOOLEAN : EnsureDocumentCachedDone(k, ok)
  \/ \E k \in 1..MaxCycles : CycleFinally(k)

SpecBackground == Init /\ [][NextBackground]_vars

\* SpecRecompute: the background callback while the UI calls
\* updateDocumentAccess.
\* What get_all_documents returns: no document, or documents 1..MaxDocs, all
\* cold
RecomputeLists ==
  {<<>>, [id \in DocIds |-> Doc(id, CHOOSE p \in DocProfiles : p.access_count = 0)]}

NextRecompute ==
  \/ \E ok \in BOOLEAN, priorities \in AccessPersisted :
       LoadDocumentPrioritiesDone(ok, priorities)
  \/ Tick
  \/ \E k \in 1..MaxCycles, ok \in BOOLEAN, allDocuments \in RecomputeLists :
       GetAllDocumentsDone(k, ok, allDocuments)
  \/ \E k \in 1..MaxCycles, ok \in BOOLEAN : SaveDocumentPriorityDone(k, ok)
  \/ \E k \in 1..MaxCycles, ok \in BOOLEAN : EnsureDocumentCachedDone(k, ok)
  \/ \E k \in 1..MaxCycles : CycleFinally(k)
  \/ \E args \in AccessCallArgs : UpdateDocumentAccess(args)
  \/ \E ok \in BOOLEAN, p \in AccessProfiles :
       GetDocumentInfoDone(ok, Doc(access.documentId, p))
  \/ \E ok \in BOOLEAN : AccessSaveDone(ok)
  \/ \E ok \in BOOLEAN : AccessUpdateDone(ok)
  \/ AccessReturn

SpecRecompute == Init /\ [][NextRecompute]_vars

\* SpecAnalysis: the two analyses, of the context service and of the live
\* assistant, called while another is in flight or not, with every external
\* call succeeding or failing.
\* No messages, a message, and a message without content
LiveMessageLists == {<<>>, <<Message(FALSE)>>, <<MalformedMessage>>}

\* What analyzeConversationTempo can find
Tempos ==
  {[pace |-> p, urgencyLevel |-> u] : p \in {"rapid", "moderate"}, u \in {"high", "low"}}

\* A conversation that is neither rapid nor urgent
CalmTempos == {tempo \in Tempos : tempo.pace # "rapid" /\ tempo.urgencyLevel # "high"}

\* responses.slice(0, 3): the typed responses of one analysis
MaxTypedResponses == 3

\* The messages that onConversationChange is called with
ChangedMessageLists == {<<>>, <<Message(TRUE)>>, <<Message(FALSE)>>}

StreamEventTypes == {"start", "chunk", "complete", "error"}

NextAnalysis ==
  \/ \E ok \in BOOLEAN, cached \in CachedLists : LoadCachedDocumentsDone(ok, cached)
  \/ \E ok \in BOOLEAN, session \in BackendSessions :
       InitializeSessionDone(ok, session)
  \/ \E k \in 1..MaxCalls : AnalyzeConversation(k, [messages |-> <<"m">>])
  \/ \E k \in 1..MaxCalls, ok \in BOOLEAN, analysis \in AnalysisResults :
       AnalyzeConversationContextDone(k, ok, analysis)
  \/ \E k \in 1..MaxCalls, ok \in BOOLEAN : ProcessDocumentEmbeddingsDone(k, ok)
  \/ \E k \in 1..MaxCalls : ContextReturn(k)
  \/ \E k \in 1..MaxCalls, messages \in LiveMessageLists : StartLiveAI(k, messages)
  \/ \E k \in 1..MaxCalls, ok \in BOOLEAN, tempo \in CalmTempos : ListenDone(k, ok, tempo)
  \/ StopLiveAI
  \/ \E k \in 1..MaxCalls, messages \in LiveMessageLists, isPreemptive \in BOOLEAN, tempo \in CalmTempos :
       AnalyzeConversationContext(k, messages, isPreemptive, tempo)
  \/ \E k \in 1..MaxCalls, ok \in BOOLEAN : GenerateConversationalAiDone(k, ok)
  \/ \E k \in 1..MaxCalls : GenerateMultipleResponseTypesDone(k, MaxTypedResponses)
  \/ \E k \in 1..MaxCalls : LiveReturn(k)

SpecAnalysis == Init /\ [][NextAnalysis]_vars

\* SpecLive: the live assistant started and stopped while the conversation
\* changes, with its stream events, its timeouts and its analyses in flight.
NextLive ==
  \/ \E k \in 1..MaxCalls : StartLiveAI(k, <<Message(FALSE)>>)
  \/ \E k \in 1..MaxCalls, ok \in BOOLEAN, tempo \in CalmTempos : ListenDone(k, ok, tempo)
  \/ StopLiveAI
  \/ \E type \in StreamEventTypes : StreamEvent(type)
  \/ \E k \in 1..MaxCalls, messages \in ChangedMessageLists, wait \in BOOLEAN, trigger \in BOOLEAN, soon \in BOOLEAN, tempo \in CalmTempos :
       OnConversationChange(k, messages, wait, trigger, soon, tempo)
  \/ \E k \in 1..MaxCalls, wait \in BOOLEAN, trigger \in BOOLEAN, soon \in BOOLEAN, tempo \in CalmTempos :
       AnalysisTimeoutFires(k, wait, trigger, soon, tempo)
  \/ \E k \in 1..MaxCalls, ok \in BOOLEAN : GenerateConversationalAiDone(k, ok)
  \/ \E k \in 1..MaxCalls : GenerateMultipleResponseTypesDone(k, MaxTypedResponses)
  \/ \E k \in 1..MaxCalls : LiveReturn(k)

SpecLive == Init /\ [][NextLive]_vars

\* SpecStore: the conversation store, its operations called while the
\* initial loadSessions and the deletions are in flight.
\* What the backend or localStorage holds: no conversation, or the one that
\* an earlier run saved, ended or still active.
StoredConversations ==
  {<<>>, <<Session(FALSE, TRUE)>>, <<Session(TRUE, FALSE)>>}

\* What localStorage.getItem returns: null, or a list
StoredItems ==
  {[none |-> TRUE]} \cup {[conversations |-> c] : c \in StoredConversations}

SessionIds == 1..MaxSessions

NextStore ==
  \/ \E ok \in BOOLEAN, conversations \in StoredConversations, stored \in StoredItems :
       LoadConversationsDone(ok, conversations, stored)
  \/ \E ok \in BOOLEAN : SaveConversationsDone(ok)
  \/ CreateSession
  \/ \E args \in {[none |-> TRUE]} \cup {[sessionId |-> id] : id \in SessionIds} :
       EndSession(args)
  \/ \E sessionId \in SessionIds : SwitchToSession(sessionId)
  \/ \E k \in 1..MaxCalls, sessionId \in SessionIds : DeleteSession(k, sessionId)
  \/ \E k \in 1..MaxCalls, ok \in BOOLEAN : DeleteConversationDone(k, ok)
  \/ \E sessionData \in {[none |-> TRUE], [session |-> Session(TRUE, FALSE)]} :
       ImportSessionData(sessionData)
  \/ \E k \in 1..MaxCalls : ClearAllSessions(k)
  \/ \E k \in 1..MaxCalls, ok \in BOOLEAN : ClearAllConversationsDone(k, ok)

SpecStore == Init /\ [][NextStore]_vars

\* ------------------------------------------------------------------ claims
\* The entry of the table for a document
EntryOf(documentId) ==
  CHOOSE e \in {documentPriorities[i] : i \in 1..Len(documentPriorities)} :
    e.documentId = documentId

\* C1: the DocumentPriority that calculateDocumentPriority returns, and every
\* entry of the priority table, has a priority equal to the weighted sum
\* 0.25 accessFrequency + 0.20 recency + 0.30 contextRelevance +
\* 0.15 embeddingStatus - 0.05 fileSize + 0.15 userPreference of its own
\* factors, clamped to [0,1]; so 0 <= priority <= 1.
C1_PriorityIsClampedWeightedSum ==
  LET Sum(f) == 25 * f.accessFrequency + 20 * f.recency + 30 * f.contextRelevance
                + 15 * f.embeddingStatus - 5 * f.fileSize + 15 * f.userPreference
      Good(e) == /\ 0 <= e.priority
                 /\ e.priority <= 100000
                 /\ e.priority = IF Sum(e.factors) < 0 THEN 0
                                 ELSE IF Sum(e.factors) > 100000 THEN 100000
                                 ELSE Sum(e.factors)
  IN  /\ \A i \in 1..Len(documentPriorities) : Good(documentPriorities[i])
      /\ api.op = "calculateDocumentPriority" =>
           /\ Good(api.result)
           /\ api.result.documentId = api.documentId

\* C1 witness: a call with 10^9 accesses, a 1 GiB file and a relevance of 3
\* has returned a priority clamped to 1, which is also the stored one.
C1_Witness ==
  /\ api.pc = "returned"
  /\ api.op = "calculateDocumentPriority"
  /\ api.a.accessCount = 1000000000
  /\ api.a.fileSizeKiB = 1048576
  /\ api.a.contextRelevance = 3000
  /\ api.result.priority = 100000
  /\ EntryOf(api.documentId) = api.result

\* C2: getTopPriorityDocuments(n) returns at most n entries of the table,
\* each with priority >= priorityThreshold, in non-increasing priority
\* order, and no entry of the table that it left out has a priority strictly
\* higher than a returned one.
C2_TopPriorityDocuments ==
  (api.pc = "returned" /\ api.op = "getTopPriorityDocuments") =>
    LET list == api.list
        table == {documentPriorities[i] : i \in 1..Len(documentPriorities)}
        returned == {list[i] : i \in 1..Len(list)}
    IN  /\ Len(list) <= api.limit
        /\ returned \subseteq table
        /\ Cardinality(returned) = Len(list)
        /\ \A r \in returned : r.priority >= cacheStrategy.priorityThreshold
        /\ \A i, j \in 1..Len(list) : i < j => list[i].priority >= list[j].priority
        /\ \A e \in table \ returned, r \in returned : e.priority <= r.priority

\* C2 witness: with two entries at or above the threshold and of different
\* priorities, a call with limit 1 has returned one entry.
C2_Witness ==
  /\ api.pc = "returned"
  /\ api.op = "getTopPriorityDocuments"
  /\ api.limit = 1
  /\ Len(api.list) = 1
  /\ Len(documentPriorities) = 2
  /\ \A i \in 1..2 : documentPriorities[i].priority >= cacheStrategy.priorityThreshold
  /\ documentPriorities[1].priority < documentPriorities[2].priority

\* C8: when calculateDocumentPriority issues save_document_priority the table
\* already holds the new entry for the documentId, and when the save fails
\* the call still returns that entry and does not raise.
C8_PersistFailureDoesNotFail ==
  /\ [][(api'.pc = "save_document_priority" /\ api.pc # "save_document_priority")
          => /\ api'.documentId \in MapIds(documentPriorities')
             /\ \A i \in 1..Len(documentPriorities') :
                  documentPriorities'[i].documentId = api'.documentId
                    => documentPriorities'[i] = api'.result]_vars
  /\ []((api.pc = "returned" /\ api.op = "calculateDocumentPriority" /\ ~api.ok)
          => /\ ~api.raised
             /\ api.result.documentId = api.documentId
             /\ api.result = DocumentPriority(api.documentId, api.a,
                                              cacheStrategy.priorityThreshold))

\* C8 witness: a call whose save failed has returned its entry, which the
\* table holds.
C8_Witness ==
  /\ api.pc = "returned"
  /\ api.op = "calculateDocumentPriority"
  /\ ~api.ok
  /\ ~api.raised
  /\ api.result.priority > 0
  /\ EntryOf(api.documentId) = api.result

\* C9: the reason is that of the first satisfied condition in the order
\* contextRelevance, accessFrequency, recency, userPreference, a condition
\* being that the factor is the maximum of the four and exceeds its threshold
\* (0.7, 0.6, 0.8, 0.7); with none satisfied it is "Multiple factors" exactly
\* when the priority exceeds priorityThreshold, and "Low priority" otherwise.
C9_Reason ==
  (api.op = "calculateDocumentPriority") =>
    LET f == api.result.factors
        reason == api.result.reason
        IsMax(x) == /\ x >= f.contextRelevance /\ x >= f.accessFrequency
                    /\ x >= f.recency /\ x >= f.userPreference
        relevance == IsMax(f.contextRelevance) /\ f.contextRelevance > 700
        frequency == IsMax(f.accessFrequency) /\ f.accessFrequency > 600
        recent == IsMax(f.recency) /\ f.recency > 800
        preference == IsMax(f.userPreference) /\ f.userPreference > 700
        none == ~relevance /\ ~frequency /\ ~recent /\ ~preference
        above == api.result.priority > cacheStrategy.priorityThreshold
    IN  /\ (reason = "High context relevance") <=> relevance
        /\ (reason = "Frequently accessed") <=> (~relevance /\ frequency)
        /\ (reason = "Recently accessed") <=> (~relevance /\ ~frequency /\ recent)
        /\ (reason = "User preference")
             <=> (~relevance /\ ~frequency /\ ~recent /\ preference)
        /\ (reason = "Multiple factors") <=> (none /\ above)
        /\ (reason = "Low priority") <=> (none /\ ~above)

\* C9 witness: access frequency and recency are both 1 and both the maximum,
\* and the earlier of the two conditions gave the reason.
C9_Witness ==
  /\ api.pc = "returned"
  /\ api.op = "calculateDocumentPriority"
  /\ api.result.factors.accessFrequency = 1000
  /\ api.result.factors.recency = 1000
  /\ api.result.factors.contextRelevance < 1000
  /\ api.result.reason = "Frequently accessed"

\* What a cycle did, read from its record: the documents it issued the call
\* `what` for, in order, and whether it entered the function `what`.
IssuedFor(c, what) ==
  LET Is(e) == e.ev = "issue" /\ e.what = what
      issued == SelectSeq(c.log, Is)
  IN  [j \in 1..Len(issued) |-> issued[j].documentId]

Entered(c, what) == \E j \in 1..Len(c.log) : c.log[j] = Event("enter", what, 0)

Ids(list) == [j \in 1..Len(list) |-> list[j].documentId]

Range(list) == {list[j] : j \in 1..Len(list)}

\* C3: with N tracked documents and maxCachedDocuments = M,
\* evictLowPriorityDocuments issues evict_document_from_cache for exactly
\* max(0, N - M) distinct documents, each of priority <= that of every
\* document it does not evict, and for none when N <= M.
C3_EvictsLowest ==
  \A k \in 1..MaxCycles :
    Entered(cyc[k], "preloadHighPriorityDocuments") =>
      LET evicted == IssuedFor(cyc[k], "evict_document_from_cache")
          N == Len(documentPriorities)
          M == cyc[k].maxCached
      IN  /\ Len(evicted) = IF N - M > 0 THEN N - M ELSE 0
          /\ Cardinality(Range(evicted)) = Len(evicted)
          /\ Range(evicted) \subseteq MapIds(documentPriorities)
          /\ \A e, f \in Range(documentPriorities) :
               (e.documentId \in Range(evicted) /\ f.documentId \notin Range(evicted))
                 => e.priority <= f.priority
          /\ N <= M => evicted = <<>>

\* C3 witness: of two tracked documents of different priorities and with
\* maxCachedDocuments = 1, a cycle has evicted the lower one and no other.
C3_Witness ==
  \E k \in 1..MaxCycles :
    /\ cyc[k].pc = "finally"
    /\ cyc[k].maxCached = 1
    /\ Len(documentPriorities) = 2
    /\ documentPriorities[1].priority > documentPriorities[2].priority
    /\ IssuedFor(cyc[k], "evict_document_from_cache")
         = <<documentPriorities[2].documentId>>

\* C4: no step of evictLowPriorityDocuments, whether its evict call succeeded
\* or failed, changes the priority table.
C4_EvictLeavesTable ==
  [][\A k \in 1..MaxCycles :
       (/\ cyc'[k] # cyc[k]
        /\ \/ cyc[k].pc = "evict_document_from_cache"
           \/ /\ Entered(cyc'[k], "evictLowPriorityDocuments")
              /\ ~Entered(cyc[k], "evictLowPriorityDocuments"))
         => documentPriorities' = documentPriorities]_vars

\* C4 witness: a cycle has evicted both tracked documents, one call having
\* succeeded and one failed, and the table still holds both.
C4_Witness ==
  \E k \in 1..MaxCycles :
    /\ cyc[k].pc = "finally"
    /\ Len(IssuedFor(cyc[k], "evict_document_from_cache")) = 2
    /\ "evict_document_from_cache" \in cyc[k].failed
    /\ Range(IssuedFor(cyc[k], "evict_document_from_cache"))
         = MapIds(documentPriorities)
    /\ Len(documentPriorities) = 2

\* C5: at most one background cycle is in progress; a tick that fires during
\* a cycle changes nothing (it issues no call and starts nothing), and a
\* cycle starts only on a tick that found the flag clear: a dropped tick is
\* not run later.
C5_SingleCycle ==
  /\ [](Cardinality({k \in 1..MaxCycles : cyc[k].pc # "idle"}) <= 1)
  /\ [][(tick' = "dropped" /\ tick # "dropped")
          => UNCHANGED <<documentPriorities, cacheStrategy, isProcessing,
                         intervalSet, init, cyc, api, calledWith>>]_vars
  /\ [][\A k \in 1..MaxCycles :
          (cyc[k].pc = "idle" /\ cyc'[k].pc # "idle")
            => (~isProcessing /\ tick' = "started")]_vars

\* C5 witness: a tick was dropped while the one cycle awaits an external call.
C5_Witness ==
  /\ tick = "dropped"
  /\ isProcessing
  /\ \E k \in 1..MaxCycles :
       /\ cyc[k].pc = "save_document_priority"
       /\ \A j \in 1..MaxCycles : j # k => cyc[j].pc = "idle"

\* C6: in a cycle every external call completes before the next is issued,
\* and the calls come in phase order: get_all_documents and the saves of the
\* recompute, then the evict calls, then the ensure calls.
C6_PhasesSequential ==
  \A k \in 1..MaxCycles :
    LET log == cyc[k].log
        Phase(what) ==
          IF what \in {"recalculateAllPriorities", "get_all_documents",
                       "save_document_priority"} THEN 1
          ELSE IF what \in {"evictLowPriorityDocuments",
                            "evict_document_from_cache"} THEN 2
          ELSE 3
        Count(ev, n) == Cardinality({i \in 1..n : log[i].ev = ev})
    IN  /\ \A j \in 1..Len(log) :
             log[j].ev = "issue" => Count("issue", j - 1) = Count("done", j - 1)
        /\ \A i, j \in 1..Len(log) :
             i < j => Phase(log[i].what) <= Phase(log[j].what)

\* C6 witness: a cycle has saved, evicted and ensured, in this order.
C6_Witness ==
  \E k \in 1..MaxCycles :
    /\ cyc[k].pc = "finally"
    /\ IssuedFor(cyc[k], "save_document_priority") # <<>>
    /\ IssuedFor(cyc[k], "evict_document_from_cache") # <<>>
    /\ IssuedFor(cyc[k], "ensure_document_cached") # <<>>

\* C7: a cycle ends only after it has entered all three phases and has
\* issued, and seen complete, the save of every document get_all_documents
\* returned, the evict of every document to evict and the ensure of every top
\* document, whichever of these calls failed.
C7_FailureDoesNotAbort ==
  \A k \in 1..MaxCycles :
    cyc[k].pc = "finally" =>
      LET c == cyc[k]
          Count(ev) == Cardinality({i \in 1..Len(c.log) : c.log[i].ev = ev})
      IN  /\ Entered(c, "recalculateAllPriorities")
          /\ Entered(c, "evictLowPriorityDocuments")
          /\ Entered(c, "preloadHighPriorityDocuments")
          /\ IssuedFor(c, "save_document_priority")
               = [j \in 1..Len(c.allDocuments) |-> c.allDocuments[j].id]
          /\ IssuedFor(c, "evict_document_from_cache") = Ids(c.toEvict)
          /\ IssuedFor(c, "ensure_document_cached") = Ids(c.topPriorities)
          /\ Count("issue") = Count("done")

\* C7 witness: a cycle in which a save, an evict and an ensure call failed
\* has reached its end.
C7_Witness ==
  \E k \in 1..MaxCycles :
    /\ cyc[k].pc = "finally"
    /\ {"save_document_priority", "evict_document_from_cache",
        "ensure_document_cached"} \subseteq cyc[k].failed
    /\ Len(cyc[k].allDocuments) = 2

\* C10: of two tracked documents whose priorities were computed from
\* arguments that differ only in the file size, the one with the larger file
\* does not have the higher priority.
C10_LargerFileNotHigher ==
  \A d1, d2 \in MapIds(documentPriorities) :
    (/\ calledWith[d1] # NoArgs
     /\ calledWith[d2] # NoArgs
     /\ [calledWith[d1] EXCEPT !.fileSizeKiB = calledWith[d2].fileSizeKiB]
          = calledWith[d2]
     /\ calledWith[d1].fileSizeKiB > calledWith[d2].fileSizeKiB)
      => EntryOf(d1).priority <= EntryOf(d2).priority

\* C11: with contextRelevance and userPreference in [0,1] (and any access
\* count, file size and lastAccessed, before or after now), each of the six
\* factors that calculateDocumentPriority stores lies in [0,1].
C11_FactorsInUnitRange ==
  \A i \in 1..Len(documentPriorities) :
    LET documentId == documentPriorities[i].documentId
        f == documentPriorities[i].factors
        a == calledWith[documentId]
        Unit(x) == 0 <= x /\ x <= FactorOne
    IN  (/\ a # NoArgs
         /\ Unit(a.contextRelevance)
         /\ Unit(a.userPreference))
          => /\ Unit(f.accessFrequency)
             /\ Unit(f.recency)
             /\ Unit(f.contextRelevance)
             /\ Unit(f.embeddingStatus)
             /\ Unit(f.fileSize)
             /\ Unit(f.userPreference)

\* The invocation of formatContextForAI that rag records (a direct call or
\* the one of the agent's RAG context assembly), and its arguments
Packed == rag.op \in {"formatContextForAI", "ragContextAssembly"}

PackedChunks == IF "chunks" \in DOMAIN rag.args THEN rag.args.chunks ELSE <<>>

PackedBudget ==
  IF "maxRagTokens" \in DOMAIN rag.args THEN rag.args.maxRagTokens ELSE 1500

PackedScores ==
  IF "includeScores" \in DOMAIN rag.args THEN rag.args.includeScores ELSE FALSE

\* The letter that a chunk's content is written with, how often a character
\* occurs in a string, and where it occurs first (0: nowhere)
LetterOf(chunk) ==
  CHOOSE c \in Range(chunk.content) : c \notin {" ", "\n", ".", "!", "?"}

Count(s, c) == Cardinality({i \in 1..Len(s) : s[i] = c})

FirstAt(s, c) ==
  IF Count(s, c) = 0 THEN 0
  ELSE CHOOSE i \in 1..Len(s) : s[i] = c /\ \A j \in 1..(i - 1) : s[j] # c

\* 0.7 similarity_score + 0.3 bm25_score of a chunk, in 1/10000
CombinedScore(chunk) ==
  7 * (IF "similarity_score" \in DOMAIN chunk THEN chunk.similarity_score ELSE 0)
  + 3 * (IF "bm25_score" \in DOMAIN chunk THEN chunk.bm25_score ELSE 0)

\* C12: formatContextForAI called with an empty or missing chunk list
\* returns context '', tokensUsed 0, chunksIncluded 0 and chunksDropped 0,
\* whatever maxRagTokens and includeScores are.
C12_EmptyListEmptyResult ==
  (rag.op = "formatContextForAI" /\ PackedChunks = <<>>)
    => /\ rag.result.context = <<>>
       /\ rag.result.tokensUsed = 0
       /\ rag.result.chunksIncluded = 0
       /\ rag.result.chunksDropped = 0

\* C12 witness: a call without a chunk list, and a call with an empty list,
\* scores switched on and a budget of 120, have returned.
C12_Witness ==
  /\ rag.op = "formatContextForAI"
  /\ \/ "chunks" \notin DOMAIN rag.args
     \/ rag.args = [chunks |-> <<>>, maxRagTokens |-> 120, includeScores |-> TRUE]
  /\ rag.result.tokensUsed = 0

\* C13: when the sum of ceil(length / 4) over the chunks' contents is at
\* most maxRagTokens, no chunk is dropped, all are included, and a chunk of
\* higher combined score appears in the context before one of lower score.
C13_FittingChunksAllIncluded ==
  (Packed /\ PackedChunks # <<>> /\ TotalRagTokens(PackedChunks) <= PackedBudget)
    => /\ rag.result.chunksDropped = 0
       /\ rag.result.chunksIncluded = Len(PackedChunks)
       /\ \A i, j \in 1..Len(PackedChunks) :
            CombinedScore(PackedChunks[i]) > CombinedScore(PackedChunks[j])
              => /\ FirstAt(rag.result.context, LetterOf(PackedChunks[i])) > 0
                 /\ FirstAt(rag.result.context, LetterOf(PackedChunks[i]))
                      < FirstAt(rag.result.context, LetterOf(PackedChunks[j]))

\* A string ends with '...'
EndsWithEllipsis(s) ==
  Len(s) >= 3 /\ SubSeq(s, Len(s) - 2, Len(s)) = <<".", ".", ".">>

\* What C14 promises of the result for a single chunk
SingleChunkTruncated ==
  /\ rag.result.chunksIncluded = 1
  /\ rag.result.chunksDropped = 0
  /\ rag.result.tokensUsed = PackedBudget
  /\ EndsWithEllipsis(rag.result.context)

Included(chunk) == Count(rag.result.context, LetterOf(chunk)) > 0

CutShort(chunk) ==
  /\ Included(chunk)
  /\ Count(rag.result.context, LetterOf(chunk))
       < Count(chunk.content, LetterOf(chunk))

\* The estimated tokens of a chunk as it is written into the context
TokensOf(chunk) ==
  LET letters == {i \in 1..Len(chunk.content) :
                    chunk.content[i] \notin {" ", "\n"}}
      first == CHOOSE i \in letters : \A j \in letters : i <= j
      last == CHOOSE i \in letters : \A j \in letters : j <= i
      prefix == IF PackedScores THEN 15 ELSE 0
  IN  (prefix + last - first + 1 + 3) \div 4

\* C15: for a non-empty list of n chunks, chunksIncluded + chunksDropped = n;
\* the chunks in the context are chunksIncluded many and none of them has a
\* lower score than a chunk left out (a prefix of the descending order); when
\* chunks are left out and none is cut, a highest-scoring chunk left out did
\* not fit on top of tokensUsed, whatever fits after it; and a chunk is cut
\* short only if it is the only one included.
C15_GreedyPrefix ==
  (Packed /\ PackedChunks # <<>>) =>
    LET chunks == Range(PackedChunks)
        in == {c \in chunks : Included(c)}
        out == chunks \ in
    IN  /\ rag.result.chunksIncluded + rag.result.chunksDropped
             = Len(PackedChunks)
        /\ Cardinality(in) = rag.result.chunksIncluded
        /\ \A c \in in, d \in out : CombinedScore(c) >= CombinedScore(d)
        /\ (out # {} /\ \A c \in in : ~CutShort(c))
             => \E d \in out :
                  /\ \A e \in out : CombinedScore(d) >= CombinedScore(e)
                  /\ rag.result.tokensUsed + TokensOf(d) > PackedBudget
        /\ \A c \in in : CutShort(c) => rag.result.chunksIncluded = 1

\* C15 witness: of three chunks with scores 0.9, 0.5 and 0.1 and a budget of
\* 12, the first was included, the second (10 tokens) did not fit, and the
\* third, whose single token would have fitted, was dropped with it.
C15_Witness ==
  /\ rag.op = "formatContextForAI"
  /\ Len(PackedChunks) = 3
  /\ PackedBudget = 12
  /\ ~PackedScores
  /\ rag.result.chunksIncluded = 1
  /\ rag.result.chunksDropped = 2
  /\ \E c \in Range(PackedChunks) :
       /\ ~Included(c)
       /\ rag.result.tokensUsed + TokensOf(c) <= PackedBudget

\* C16: for every non-empty chunk list, every maxRagTokens >= 0 and either
\* includeScores value, tokensUsed <= maxRagTokens.
C16_TokensUsedWithinBudget ==
  (Packed /\ PackedChunks # <<>> /\ PackedBudget >= 0)
    => rag.result.tokensUsed <= PackedBudget

\* The invocation of calculateOptimalTokenAllocation that rag records (a
\* direct call or the one of the agent's RAG context assembly): its result
\* and its arguments, with the defaults for those not passed
Allocated == rag.op \in {"calculateOptimalTokenAllocation", "ragContextAssembly"}

Allocation ==
  IF rag.op = "ragContextAssembly" THEN rag.tokenAllocation ELSE rag.result

AllocatedChunks ==
  IF rag.op = "ragContextAssembly" THEN rag.args.chunks
  ELSE IF "ragChunks" \in DOMAIN rag.args THEN rag.args.ragChunks ELSE <<>>

TotalBudget ==
  IF rag.op = "calculateOptimalTokenAllocation"
       /\ "totalTokenBudget" \in DOMAIN rag.args
  THEN rag.args.totalTokenBudget ELSE 4000

MinConversation ==
  IF rag.op = "calculateOptimalTokenAllocation"
       /\ "minConversationTokens" \in DOMAIN rag.args
  THEN rag.args.minConversationTokens ELSE 1500

MaxRag ==
  IF rag.op = "calculateOptimalTokenAllocation"
       /\ "maxRagTokens" \in DOMAIN rag.args
  THEN rag.args.maxRagTokens ELSE 2000

\* The sum over the chunks of ceil(length of content / 4)
RECURSIVE SumOfEstimates(_)
SumOfEstimates(chunks) ==
  IF chunks = <<>> THEN 0
  ELSE (Len(chunks[1].content) + 3) \div 4 + SumOfEstimates(Tail(chunks))

\* C17: calculateOptimalTokenAllocation returns ragTokens >= 0 and
\* conversationTokens >= 0 with ragTokens + conversationTokens = totalBudget,
\* for all chunk lists and all (non-negative) totalBudget,
\* minConversationTokens and maxRagTokens.
C17_AllocationSplitsBudget ==
  Allocated =>
    /\ Allocation.ragTokens >= 0
    /\ Allocation.conversationTokens >= 0
    /\ Allocation.ragTokens + Allocation.conversationTokens = TotalBudget

\* C17 witness: a budget of 100 below the minimum of 120, with a chunk of
\* 125 tokens: totalBudget - minConversationTokens is negative, and the call
\* returned 0 and 100.
C17_Witness ==
  /\ rag.op = "calculateOptimalTokenAllocation"
  /\ AllocatedChunks # <<>>
  /\ SumOfEstimates(AllocatedChunks) = 125
  /\ TotalBudget = 100
  /\ MinConversation = 120
  /\ MaxRag = 200
  /\ Allocation = [ragTokens |-> 0, conversationTokens |-> 100]

\* C18: with no chunks the whole budget goes to the conversation; otherwise
\* ragTokens <= min(sum of the chunk estimates, maxRagTokens); whenever
\* totalBudget >= minConversationTokens, conversationTokens >=
\* minConversationTokens; and when totalBudget < minConversationTokens,
\* ragTokens = 0 and conversationTokens = totalBudget.
C18_AllocationBounds ==
  Allocated =>
    /\ AllocatedChunks = <<>>
         => Allocation = [ragTokens |-> 0, conversationTokens |-> TotalBudget]
    /\ AllocatedChunks # <<>>
         => /\ Allocation.ragTokens <= SumOfEstimates(AllocatedChunks)
            /\ Allocation.ragTokens <= MaxRag
    /\ TotalBudget >= MinConversation
         => Allocation.conversationTokens >= MinConversation
    /\ TotalBudget < MinConversation
         => Allocation = [ragTokens |-> 0, conversationTokens |-> TotalBudget]

\* C18 witness: a budget of 130, a minimum of 120 and a chunk of 125 tokens:
\* the conversation was raised from 5 to its minimum and ragTokens cut to 10.
C18_Witness ==
  /\ rag.op = "calculateOptimalTokenAllocation"
  /\ AllocatedChunks # <<>>
  /\ SumOfEstimates(AllocatedChunks) = 125
  /\ TotalBudget = 130
  /\ MinConversation = 120
  /\ MaxRag = 200
  /\ Allocation = [ragTokens |-> 10, conversationTokens |-> 120]

\* The invocations of selectDocuments in progress or just returned
Selecting(k) == contextCalls[k].op = "selectDocuments"

\* C19: selectDocuments with mode 'none', 'manual' or an unknown mode
\* returns the empty list and issues no external call, whatever the cache,
\* the analysis and the session's active and suggested documents are.
C19_NoSelection ==
  \A k \in 1..MaxCalls :
    (Selecting(k) /\ contextCalls[k].args.mode \notin {"auto", "search", "all"})
      => /\ contextCalls[k].pc = "returned"
         /\ contextCalls[k].result = <<>>
         /\ contextCalls[k].log = <<>>
         /\ ~contextCalls[k].raised

\* C19 witness: with both documents cached, an analysis that suggests them,
\* document 1 active and both suggested in the session, selectDocuments has
\* returned for an unknown mode.
C19_Witness ==
  \E k \in 1..MaxCalls :
    /\ Selecting(k)
    /\ contextCalls[k].args.mode = "custom"
    /\ contextCalls[k].pc = "returned"
    /\ Len(contextCache) = MaxDocs
    /\ contextAnalysis # Null
    /\ "suggested_documents" \in DOMAIN contextAnalysis
    /\ Len(contextAnalysis.suggested_documents) > 0
    /\ contextSession # Null
    /\ contextSession.active_documents = <<1>>
    /\ Len(contextSession.suggested_documents) = 2

\* C20: selectDocuments('auto') returns at most 10 ids; with an analysis
\* from the backend, each is the document of one of its suggestions with
\* confidence >= 0.7; with no analysis available (none has run, the last run
\* failed, or clearContext removed it) the ids are documents of the cache,
\* in non-increasing order of relevance_score + access_count, and no cached
\* document with a relevance of at least 0.7 is missing among them.
C20_AutoSelection ==
  \A k \in 1..MaxCalls :
    (Selecting(k) /\ contextCalls[k].args.mode = "auto"
       /\ contextCalls[k].pc = "returned") =>
      LET ids == contextCalls[k].result
          Rank(id) == CacheGet(contextCache, id).relevance_score
                        + 1000 * CacheGet(contextCache, id).access_count
      IN  /\ Len(ids) <= 10
          /\ (contextAnalysis # Null /\ contextAnalysis.intent # "unknown"
                /\ "suggested_documents" \in DOMAIN contextAnalysis)
               => \A i \in 1..Len(ids) :
                    \E j \in 1..Len(contextAnalysis.suggested_documents) :
                      /\ contextAnalysis.suggested_documents[j].document_id = ids[i]
                      /\ contextAnalysis.suggested_documents[j].confidence >= 700
          /\ (contextAnalysis = Null \/ contextAnalysis.intent = "unknown")
               => /\ \A i \in 1..Len(ids) : CacheHas(contextCache, ids[i])
                  /\ \A i, j \in 1..Len(ids) : i < j => Rank(ids[i]) >= Rank(ids[j])
                  /\ \A d \in 1..Len(contextCache) :
                       contextCache[d].relevance_score >= 700
                         => \E i \in 1..Len(ids) : ids[i] = contextCache[d].id

\* C21: selectDocuments('search', q) returns the empty list, and issues no
\* external call, when q is empty or missing; otherwise it issues
\* search_context_documents once and returns its result, or the empty list
\* when the call fails; it never raises.
C21_SearchMode ==
  \A k \in 1..MaxCalls :
    (Selecting(k) /\ contextCalls[k].args.mode = "search") =>
      LET c == contextCalls[k]
          hasQuery == IF "query" \in DOMAIN c.args THEN c.args.query # "" ELSE FALSE
      IN  /\ ~c.raised
          /\ ~hasQuery => /\ c.pc = "returned"
                          /\ c.result = <<>>
                          /\ c.log = <<>>
          /\ hasQuery =>
               /\ c.log = <<Invoke("search_context_documents", 0)>>
               /\ c.pc \in {"search_context_documents", "returned"}
               /\ c.pc = "returned" =>
                    /\ c.response # Undefined
                    /\ c.result = IF c.response.ok THEN c.response.value ELSE <<>>

\* C21 witness: a search with a query has returned the empty list after
\* search_context_documents failed.
C21_Witness ==
  \E k \in 1..MaxCalls :
    /\ Selecting(k)
    /\ contextCalls[k].args = [mode |-> "search", query |-> "q"]
    /\ contextCalls[k].pc = "returned"
    /\ contextCalls[k].response = Response(FALSE, Undefined)
    /\ contextCalls[k].result = <<>>

\* C22: selectDocuments('all') called with a non-empty cache returns the ids
\* of the cache at once, without an external call; called with an empty
\* cache it issues get_all_documents and returns the ids it answers with, or
\* the empty list when it fails; it never raises.
C22_AllMode ==
  [][\A k \in 1..MaxCalls :
       LET c == contextCalls[k]
           d == contextCalls'[k]
           IsAll(x) == IF x.op = "selectDocuments" THEN x.args.mode = "all" ELSE FALSE
       IN  /\ (c = IdleCall /\ IsAll(d)) =>
                IF Len(contextCache) > 0
                THEN /\ d.pc = "returned"
                     /\ d.result = CacheIds(contextCache)
                     /\ d.log = <<>>
                     /\ ~d.raised
                ELSE /\ d.pc = "get_all_documents"
                     /\ d.log = <<Invoke("get_all_documents", 0)>>
           /\ (IsAll(c) /\ c.pc = "get_all_documents" /\ d # c) =>
                /\ d.pc = "returned"
                /\ d.log = c.log
                /\ ~d.raised
                /\ d.response # Undefined
                /\ d.result = IF d.response.ok THEN d.response.value ELSE <<>>]_vars

\* C22 witness: called with an empty cache, selectDocuments('all') has
\* returned the ids that get_all_documents answered with.
C22_Witness ==
  \E k \in 1..MaxCalls :
    /\ Selecting(k)
    /\ contextCalls[k].args.mode = "all"
    /\ contextCalls[k].pc = "returned"
    /\ contextCalls[k].log = <<Invoke("get_all_documents", 0)>>
    /\ contextCalls[k].response = Response(TRUE, contextCalls[k].result)
    /\ Len(contextCalls[k].result) = MaxDocs
    /\ contextCache = <<>>

\* The invocation of addDocumentToContext that the step starts in slot k
AddStarts(k) ==
  /\ contextCalls[k] = IdleCall
  /\ contextCalls'[k].op = "addDocumentToContext"

\* C23: addDocumentToContext with an id that is already in active_documents
\* leaves active_documents unchanged and still bumps the cached document's
\* access metadata as a first add does: access_count is incremented and
\* update_document_access invoked.
C23_ReAddBumpsAccess ==
  [][\A k \in 1..MaxCalls :
       AddStarts(k) =>
         LET documentId == contextCalls'[k].args.documentId
         IN  (IF contextSession = Null THEN FALSE
              ELSE /\ Includes(contextSession.active_documents, documentId)
                   /\ CacheHas(contextCache, documentId))
             => /\ contextSession'.active_documents = contextSession.active_documents
                /\ CacheGet(contextCache', documentId).access_count
                     = CacheGet(contextCache, documentId).access_count + 1
                /\ contextCalls'[k].log =
                     <<Invoke("update_document_access", documentId)>>]_vars

\* The active documents of a session, none without a session
ActiveDocuments(session) ==
  IF session = Null THEN <<>> ELSE session.active_documents

NoDuplicates(list) == \A i, j \in 1..Len(list) : i # j => list[i] # list[j]

\* The list without the occurrences of x, the others in their order
Without(list, x) == Pick(list, {i \in 1..Len(list) : list[i] # x})

\* C24: active_documents is an insertion-ordered set.  No id occurs twice;
\* every step leaves the list alone, appends an id that was absent, removes
\* one id and keeps the others in their order, or empties the list;
\* removeDocumentFromContext leaves exactly the list without its id (the
\* same list when the id was absent), addDocumentToContext appends its id
\* unless it is present, and clearContext empties the list.
C24_InsertionOrderedSet ==
  [][LET a == ActiveDocuments(contextSession)
         b == ActiveDocuments(contextSession')
     IN  /\ NoDuplicates(b)
         /\ \/ b = a
            \/ \E id \in DocIds : ~Includes(a, id) /\ b = Append(a, id)
            \/ \E id \in DocIds : Includes(a, id) /\ b = Without(a, id)
            \/ b = <<>>
         /\ \A id \in DocIds :
              RemoveDocumentFromContext(id) => b = Without(a, id)
         /\ \A k \in 1..MaxCalls :
              (AddStarts(k) /\ contextSession # Null) =>
                LET id == contextCalls'[k].args.documentId
                IN  b = IF Includes(a, id) THEN a ELSE Append(a, id)
         /\ ClearContext => b = <<>>]_vars

\* C24 witness: document 2 was added before document 1, and a further add
\* of document 1 has returned.
C24_Witness ==
  /\ ActiveDocuments(contextSession) = <<2, 1>>
  /\ \E k \in 1..MaxCalls :
       /\ contextCalls[k].op = "addDocumentToContext"
       /\ contextCalls[k].pc = "returned"
       /\ contextCalls[k].args.documentId = 1
       /\ contextCalls[k].log = <<>>

\* C25: persistence of session mutations is best-effort.  When
\* update_document_access (addDocumentToContext) or update_context_session
\* (setContextMode) fails, the operation returns without raising to its
\* caller, and the session and the cache keep the local change.
C25_BestEffortPersistence ==
  [][\A k \in 1..MaxCalls :
       LET c == contextCalls[k]
           d == contextCalls'[k]
       IN  (/\ c.pc \in {"update_document_access", "update_context_session"}
            /\ d.pc = "returned"
            /\ d.response = Response(FALSE, Undefined))
           => /\ ~d.raised
              /\ contextSession' = contextSession
              /\ contextCache' = contextCache]_vars

\* C26: the background refresh drains the queue in FIFO order, one id per
\* tick.  A tick removes nothing or the head of documentPriorityQueue;
\* the only call it issues is process_document_embeddings for that head, and
\* the invocation it starts never issues another; a tick during which
\* isProcessing is set removes nothing and issues nothing.
C26_TickDrainsHead ==
  [][\A k \in 1..MaxCalls :
       ContextTick(k) =>
         LET queue == documentPriorityQueue
             d == contextCalls'[k]
         IN  /\ \/ documentPriorityQueue' = queue
                \/ queue # <<>> /\ documentPriorityQueue' = Tail(queue)
             /\ contextProcessing =>
                  /\ documentPriorityQueue' = queue
                  /\ contextCalls' = contextCalls
             /\ \A j \in 1..MaxCalls : j # k => contextCalls'[j] = contextCalls[j]
             /\ \/ d = contextCalls[k]
                \/ /\ documentPriorityQueue' # queue
                   /\ d.op = "backgroundProcessing"
                   /\ d.log = <<Invoke("process_document_embeddings", Head(queue))>>
             /\ \A j \in 1..MaxCalls :
                  contextCalls[j].op = "backgroundProcessing" =>
                    Len(contextCalls[j].log) = 1]_vars

\* C26 witness: of the queued documents 1 and 2, a tick has removed
\* document 1 and is processing it while document 2 is still queued.
C26_Witness ==
  \E k \in 1..MaxCalls :
    /\ contextCalls[k].op = "backgroundProcessing"
    /\ contextCalls[k].pc = "process_document_embeddings"
    /\ contextCalls[k].args.documentId = 1
    /\ documentPriorityQueue = <<2>>
    /\ ~contextProcessing

\* C27: clearing the context session is atomic with respect to pending
\* work: clearContext leaves documentPriorityQueue empty, so that no later
\* tick processes a document that was queued before the clear.
C27_ClearEmptiesQueue ==
  [][ClearContext => documentPriorityQueue' = <<>>]_vars

\* C28: no public operation of the priority engine raises to its caller
\* when an external call fails.  loadDocumentPriorities completes the
\* initialisation with the loaded table or the table as it was;
\* calculateDocumentPriority returns the entry it computed and
\* updateCacheStrategy returns, whether or not their call failed;
\* updateDocumentAccess returns the entry it computed or null;
\* preloadSimilarDocuments returns the similar documents or the empty list;
\* evictLowPriorityDocuments returns nothing.
C28_NoOperationRaises ==
  /\ [][(init = "get_document_priorities" /\ init' # init)
          => /\ init' = "done"
             /\ \/ documentPriorities' = documentPriorities
                \/ \E priorities \in AccessPersisted :
                     documentPriorities' = MapFrom(priorities)]_vars
  /\ [](/\ api.pc = "returned" =>
             /\ ~api.raised
             /\ api.op = "calculateDocumentPriority" =>
                  api.result = DocumentPriority(api.documentId, api.a,
                                                cacheStrategy.priorityThreshold)
        /\ access.pc = "returned" =>
             /\ ~access.raised
             /\ access.op = "updateDocumentAccess" =>
                  \/ access.result = Null
                  \/ /\ access.result = access.priority
                     /\ access.priority.documentId = access.args.documentId
             /\ access.op = "preloadSimilarDocuments" =>
                  access.result \in {<<>>, access.list}
             /\ access.op = "evictLowPriorityDocuments" =>
                  access.result = Undefined)

\* C28 witness: updateDocumentAccess has returned null after its third
\* call, update_document_access, failed.
C28_Witness ==
  /\ access.op = "updateDocumentAccess"
  /\ access.pc = "returned"
  /\ Len(access.log) = 3
  /\ access.log[3].command = "update_document_access"
  /\ access.result = Null
  /\ ~access.raised

\* The invocation of analyzeConversation that the step starts in slot k
AnalyzeStarts(k) ==
  /\ contextCalls[k] = IdleCall
  /\ contextCalls'[k].op = "analyzeConversation"

\* The argument is no array or an empty one
InvalidMessages(args) ==
  IF "messages" \in DOMAIN args THEN args.messages = <<>> ELSE TRUE

\* C29 as stated: analyzeConversation with an empty, missing or non-array
\* message list returns null without any external call, leaves the
\* analysis, the session, the cache and the queue unchanged, and leaves
\* isProcessing cleared.
C29_InvalidMessagesReturnNull ==
  [][\A k \in 1..MaxCalls :
       (AnalyzeStarts(k) /\ InvalidMessages(contextCalls'[k].args)) =>
         /\ contextCalls'[k].pc = "returned"
         /\ contextCalls'[k].result = Null
         /\ contextCalls'[k].log = <<>>
         /\ ~contextCalls'[k].raised
         /\ UNCHANGED <<contextAnalysis, contextSession, contextCache,
                        documentPriorityQueue>>
         /\ ~contextProcessing']_vars

\* C29 amended: such a call returns at once without any external call and
\* leaves the analysis, the session, the cache and the queue unchanged;
\* when no analysis is in progress it returns null and isProcessing is
\* cleared afterwards; when one is in progress it returns undefined and
\* isProcessing stays set.
C29_InvalidMessagesNoEffect ==
  [][\A k \in 1..MaxCalls :
       (AnalyzeStarts(k) /\ InvalidMessages(contextCalls'[k].args)) =>
         /\ contextCalls'[k].pc = "returned"
         /\ contextCalls'[k].log = <<>>
         /\ ~contextCalls'[k].raised
         /\ UNCHANGED <<contextAnalysis, contextSession, contextCache,
                        documentPriorityQueue>>
         /\ IF contextProcessing
            THEN contextCalls'[k].result = Undefined /\ contextProcessing'
            ELSE contextCalls'[k].result = Null /\ ~contextProcessing']_vars

\* C29 witness: with an analysis stored and its documents queued, a call
\* with a value that is no array has returned null and isProcessing is clear.
C29_Witness ==
  \E k \in 1..MaxCalls :
    /\ contextCalls[k].op = "analyzeConversation"
    /\ contextCalls[k].pc = "returned"
    /\ contextCalls[k].args = [nonArray |-> TRUE]
    /\ contextCalls[k].result = Null
    /\ ~contextProcessing
    /\ contextAnalysis # Null
    /\ Len(documentPriorityQueue) > 0

\* A run of analyzeConversation (context service) awaits an external call
AnalysisInFlight(c) ==
  /\ c.op = "analyzeConversation"
  /\ c.pc \in {"analyze_conversation_context", "process_document_embeddings"}

\* The slots whose analysis is in flight, of the context service and of the
\* live assistant
AnalysesInFlight == {k \in 1..MaxCalls : AnalysisInFlight(contextCalls[k])}

LiveRunsInFlight == {k \in 1..MaxCalls : InFlight(liveCalls[k])}

\* Slot k starts a call of analyzeConversationContext by the UI in this step
LiveAnalysisStarts(k) ==
  /\ liveCalls[k] = IdleCall
  /\ liveCalls'[k].op = "analyzeConversationContext"

\* The guard of lines 555-558 holds for the call that slot k starts
LiveGuardSet(k) ==
  /\ live.isActive
  /\ live.sessionId # Null
  /\ live.isAnalyzing \/ (liveCalls'[k].isPreemptive /\ live.preemptiveAnalysisInProgress)

\* An analysis of the context service that set isProcessing ends in slot k
AnalysisEnds(k) ==
  /\ contextCalls[k].pc # "returned"
  /\ contextCalls'[k].op = "analyzeConversation"
  /\ contextCalls'[k].pc = "returned"
  /\ AnalysisInFlight(contextCalls[k]) \/ ~contextProcessing

\* A run of the live assistant that passed the guards ends in slot k
LiveRunEnds(k) ==
  /\ liveCalls[k].pc # "returned"
  /\ liveCalls'[k].pc = "returned"
  /\ liveCalls'[k].ran

\* C30: at most one analyzeConversation and at most one
\* analyzeConversationContext run is in flight, and the guard flag is set
\* just while one is; a call that finds the guard flag set returns at once
\* without an external call, a state change or a timeout for a retry; and
\* when a run ends, on success or on failure, the flags it set are cleared.
C30_ReentrancyGuards ==
  /\ [](/\ Cardinality(AnalysesInFlight) <= 1
        /\ Cardinality(LiveRunsInFlight) <= 1
        /\ contextProcessing <=> AnalysesInFlight # {}
        /\ live.isAnalyzing <=> LiveRunsInFlight # {}
        /\ live.preemptiveAnalysisInProgress =>
             \E k \in LiveRunsInFlight : liveCalls[k].isPreemptive)
  /\ [][\A k \in 1..MaxCalls :
          (AnalyzeStarts(k) /\ contextProcessing) =>
            /\ contextCalls'[k].pc = "returned"
            /\ contextCalls'[k].log = <<>>
            /\ UNCHANGED <<contextCache, contextSession, contextAnalysis,
                           documentPriorityQueue, contextProcessing,
                           contextInit, contextTimer>>]_vars
  /\ [][\A k \in 1..MaxCalls :
          (LiveAnalysisStarts(k) /\ LiveGuardSet(k)) =>
            /\ liveCalls'[k].pc = "returned"
            /\ ~liveCalls'[k].ran
            /\ liveCalls'[k].log = <<>>
            /\ UNCHANGED live]_vars
  /\ [][\A k \in 1..MaxCalls : AnalysisEnds(k) => ~contextProcessing']_vars
  /\ [][\A k \in 1..MaxCalls :
          LiveRunEnds(k) =>
            /\ ~live'.isAnalyzing
            /\ IF liveCalls'[k].isPreemptive
               THEN ~live'.preemptiveAnalysisInProgress
               ELSE ~live'.isProcessing]_vars

\* C30 witness: in each service one analysis is in flight and a second call
\* has returned without an external call; the live run has issued both of
\* its calls.
C30_Witness ==
  /\ \E j, k \in 1..MaxCalls :
       /\ AnalysisInFlight(contextCalls[j])
       /\ contextCalls[j].pc = "process_document_embeddings"
       /\ contextCalls[k].op = "analyzeConversation"
       /\ contextCalls[k].pc = "returned"
       /\ contextCalls[k].log = <<>>
  /\ \E j, k \in 1..MaxCalls :
       /\ liveCalls[j].pc = "generateMultipleResponseTypes"
       /\ liveCalls[k].op = "analyzeConversationContext"
       /\ liveCalls[k].pc = "returned"
       /\ ~liveCalls[k].ran
       /\ live.isActive
       /\ live.sessionId # Null

\* The entry of a document in a priority table
EntryIn(table, documentId) ==
  CHOOSE e \in {table[i] : i \in 1..Len(table)} : e.documentId = documentId

\* C31: a step of a background cycle leaves the context relevance of every
\* table entry that was computed with a supplied relevance r > 0 as it is:
\* the document still has contextRelevance = r in the table after the cycle.
C31_RecomputeKeepsRelevance ==
  [][\A d \in DocIds :
       (/\ cyc' # cyc
        /\ d \in MapIds(documentPriorities)
        /\ EntryIn(documentPriorities, d).factors.contextRelevance > 0) =>
         /\ d \in MapIds(documentPriorities')
         /\ EntryIn(documentPriorities', d).factors.contextRelevance =
              EntryIn(documentPriorities, d).factors.contextRelevance]_vars

\* The ids that a cycle has passed to the external call `what`
PassedTo(c, what) ==
  {c.log[i].documentId :
     i \in {j \in 1..Len(c.log) : c.log[j].ev = "issue" /\ c.log[j].what = what}}

\* C32: within one background cycle the ids passed to
\* evict_document_from_cache and the ids passed to ensure_document_cached
\* are disjoint.
C32_EvictedNotPreloaded ==
  \A k \in 1..MaxCycles :
    PassedTo(cyc[k], "evict_document_from_cache")
      \cap PassedTo(cyc[k], "ensure_document_cached") = {}

\* ------------------------------------------------------------------ C33
\* C33: isProcessing is true exactly while a background cycle is executing;
\* whenever a cycle ends, after failed external calls or not, the flag is
\* false; a tick that finds the flag clear starts a cycle; and, every
\* external call returning, a set flag is cleared again, so that a dropped
\* tick does not block the ticks after it.
C33_FlagTracksCycle ==
  /\ [](isProcessing <=> \E k \in 1..MaxCycles : cyc[k].pc # "idle")
  /\ [][(\E k \in 1..MaxCycles : cyc[k].pc # "idle" /\ cyc'[k].pc = "idle")
          => ~isProcessing']_vars
  /\ [][(~isProcessing /\ tick' # tick /\ tick' # "none")
          => (tick' = "started" /\ isProcessing'
              /\ \E k \in 1..MaxCycles : cyc'[k].pc = "get_all_documents")]_vars
  /\ (isProcessing ~> ~isProcessing)
  /\ (tick = "dropped" ~> tick = "none")

\* C33 witness: a tick has started a new cycle after an earlier cycle, which
\* stored document 1, ended.
C33_Witness ==
  /\ tick = "started"
  /\ isProcessing
  /\ cyc[1].pc = "get_all_documents"
  /\ \E i \in 1..Len(documentPriorities) : documentPriorities[i].documentId = 1

\* ------------------------------------------------------------------ C34
\* C34: while the backgroundProcessing setting is off, no timer tick starts a
\* background cycle (and so none issues recompute, evict or preload calls):
\* a cycle starts only in a state whose setting is on.
C34_NoCycleWhileOff ==
  [][(\E k \in 1..MaxCycles : cyc[k].pc = "idle" /\ cyc'[k].pc # "idle")
       => cacheStrategy.backgroundProcessing]_vars

\* ------------------------------------------------------------------ C35
\* C35: an updateDocumentAccess that has returned null has not changed the
\* priority table.
C35_NullLeavesTable ==
  (/\ access.op = "updateDocumentAccess"
   /\ access.pc = "returned"
   /\ access.result = Null)
    => ~access.changed

\* ------------------------------------------------------------------ C36
\* C36: a result of formatContextForAI with chunksIncluded = 0 has the empty
\* string as its context, whatever the chunks and the budget.
C36_NoHeaderOnlyContext ==
  (Packed /\ rag.result.chunksIncluded = 0) => rag.result.context = <<>>

\* ------------------------------------------------------------------ C37
\* C37: the returned tokensUsed is never below the token estimate of the
\* returned context: ceil(length(context) / 4) <= tokensUsed, with the
\* header, the separators between chunks, the score prefixes and a truncated
\* chunk counted.
C37_TokensUsedCoversContext ==
  Packed => EstimateTokens(rag.result.context) <= rag.result.tokensUsed

\* ------------------------------------------------------------------ C38
\* The timer callback of the context service starts in slot k and requests
\* process_document_embeddings for the id it shifted from the queue.
TickRequests(k) ==
  /\ contextCalls[k] = IdleCall
  /\ contextCalls'[k].op = "backgroundProcessing"
  /\ contextCalls'[k].pc = "process_document_embeddings"

\* The suggested document whose embeddings updateDocumentSuggestions has
\* requested directly, the request having succeeded: the backend delivers no
\* document as 'processing', so that only a completed request leaves this
\* status, and the queue holds the ids that updateDocumentSuggestions stored
\* in the session together with it.
ProcessedDirectly(documentId) ==
  /\ contextSession # Null
  /\ Includes(contextSession.suggested_documents, documentId)
  /\ CacheHas(contextCache, documentId)
  /\ CacheGet(contextCache, documentId).embedding_status = "processing"

\* C38: process_document_embeddings is requested at most once per suggested
\* document: a timer tick that drains documentPriorityQueue does not request
\* it for an id that updateDocumentSuggestions has processed directly.
C38_ProcessedOnce ==
  [][\A k \in 1..MaxCalls :
       TickRequests(k) => ~ProcessedDirectly(contextCalls'[k].args.documentId)]_vars

\* ------------------------------------------------------------------ C39
\* The live assistant is stopped: stopLiveAI has reset it and startLiveAI has
\* not been called since (startLiveAI sets sessionId at once).
LiveStopped ==
  /\ live.sessionId = Null
  /\ ~live.isActive
  /\ live.suggestions = <<>>

\* The step is one of startLiveAI: its call, or the completion of its listen.
StartLiveAISteps ==
  \E k \in 1..MaxCalls :
    /\ liveCalls'[k] # liveCalls[k]
    /\ \/ liveCalls[k] = IdleCall /\ liveCalls'[k].op = "startLiveAI"
       \/ liveCalls[k].pc = "listen"

\* C39: a stopped assistant stays stopped until startLiveAI: no other step,
\* and so no analysis in flight and no timeout that was set before the stop,
\* adds a suggestion or sets isActive.
C39_StoppedStaysStopped ==
  [][(LiveStopped /\ ~StartLiveAISteps)
       => (live'.suggestions = <<>> /\ ~live'.isActive)]_vars

\* ------------------------------------------------------------------ C40
\* C40: in the conversation store a non-null currentSession is an element of
\* sessions and is active, and at most one session of sessions is active.
C40_CurrentIsTheActiveSession ==
  /\ currentSession # 0 =>
       /\ FindSession(sessions, currentSession) # 0
       /\ sessionObjects[currentSession].isActive
  /\ Cardinality({i \in 1..Len(sessions) : sessionObjects[sessions[i]].isActive}) <= 1

====
